---- MODULE Spec2Model ----
(***************************************************************************)
(* Visual-consistency core of m(video)p: the prompt compression pipeline   *)
(* (consistency/assembler.py), the prompt assembler, and the consistency   *)
(* manager with its storage collaborator (consistency/manager.py, db.py).  *)
(* Python strings are TLA+ strings; positions are 1-based here, and the    *)
(* 0-based results of str.rfind are kept 0-based (so -1 means not found).  *)
(***************************************************************************)
EXTENDS Integers, Sequences, FiniteSets, TLC

VARIABLES
  cIn, cT, cOut, cPc,       \* _compress_for_wan: prompt, target, result, position
  asmState,                 \* PromptAssembler.state
  aPc,                      \* "ready" for a call, "done" after it
  aCall,                    \* the last call and its arguments
  aRaised,                  \* the last call raised ValueError
  aParts,                   \* its list of fragments, each with its section
  aJoined,                  \* the fragments joined, before compression
  aOut,                     \* the prompt it returned
  aEst,                     \* the dict estimate_prompt_length returned
  mState,                   \* ConsistencyManager._state
  mDirty,                   \* ConsistencyManager._dirty
  mDb,                      \* a db_module was given to the Manager
  dbRows,                   \* table consistency_states: session_id -> row
  mFresh,                   \* number of uuid4 ids drawn so far
  mCall,                    \* the last Manager call and its outcome
  mOps,                     \* number of Manager calls made
  mSeen,                    \* every subject id a State held by the Manager has had
  dbTable,                  \* db.py: the rows of table consistency_states
  dbConn,                   \* db.py: each caller's position in save_consistency_state
  dbSaved,                  \* per session, the State of the last save that returned
  dbCall,                   \* db.py: the last call that ended and its outcome
  rSheet,                   \* schemas.py: a sheet or bundle, with its kind
  rPc,                      \* "ready" to render it, "done" after
  rShown                    \* per detail level, the fields to_prompt_block rendered

compressVars == <<cIn, cT, cOut, cPc>>

asmVars == <<asmState, aPc, aCall, aRaised, aParts, aJoined, aOut, aEst>>

mgrVars == <<mState, mDirty, mDb, dbRows, mFresh, mCall, mOps, mSeen>>

storeVars == <<dbTable, dbConn, dbSaved, dbCall>>

renderVars == <<rSheet, rPc, rShown>>

vars ==
  <<cIn, cT, cOut, cPc, asmState, aPc, aCall, aRaised, aParts, aJoined, aOut, aEst,
    mState, mDirty, mDb, dbRows, mFresh, mCall, mOps, mSeen, dbTable, dbConn, dbSaved,
    dbCall, rSheet, rPc, rShown>>

(***************************************************************************)
(* Bounds of the model.                                                    *)
(***************************************************************************)
MaxTokens == 4
MaxTarget == 10
AsmMaxSubjects == 2
LongRepeat == 2

(***************************************************************************)
(* Characters and character classes of Python's str / re.                  *)
(***************************************************************************)
LowerLetters == "abcdefghijklmnopqrstuvwxyz"
UpperLetters == "ABCDEFGHIJKLMNOPQRSTUVWXYZ"
DigitChars == "0123456789"

(* the characters of s, as a sequence of one-character strings             *)
Chars(s) == SubSeq([i \in 1..Len(s) |-> SubSeq(s, i, i)], 1, Len(s))

CharSet(s) == {SubSeq(s, i, i) : i \in 1..Len(s)}

Whitespace == {" ", "\t", "\n"}

WordChars == CharSet(LowerLetters) \cup CharSet(UpperLetters) \cup CharSet(DigitChars) \cup {"_"}

LowerMap == [ch \in CharSet(UpperLetters) |->
               LET i == CHOOSE k \in 1..26 : SubSeq(UpperLetters, k, k) = ch
               IN  SubSeq(LowerLetters, i, i)]

IsSpace(ch) == ch \in Whitespace

IsWord(ch) == ch \in WordChars

ToLower(ch) == IF ch \in DOMAIN LowerMap THEN LowerMap[ch] ELSE ch

MinOf(S) == CHOOSE x \in S : \A y \in S : x <= y

MaxOf(S) == 0 - MinOf({0 - x : x \in S})

(* Number of consecutive whitespace characters of c (of length n) from j,  *)
(* and of those that end at j.                                             *)
RECURSIVE WsRun(_, _, _)
WsRun(c, n, j) == IF j <= n /\ IsSpace(c[j]) THEN 1 + WsRun(c, n, j + 1) ELSE 0

RECURSIVE WsRunBack(_, _)
WsRunBack(c, j) == IF j >= 1 /\ IsSpace(c[j]) THEN 1 + WsRunBack(c, j - 1) ELSE 0

(* Number of consecutive commas of c (of length n) from j, and of those    *)
(* that end at j.                                                          *)
RECURSIVE CommaRun(_, _, _)
CommaRun(c, n, j) == IF j <= n /\ c[j] = "," THEN 1 + CommaRun(c, n, j + 1) ELSE 0

RECURSIVE CommaRunBack(_, _)
CommaRunBack(c, j) == IF j >= 1 /\ c[j] = "," THEN 1 + CommaRunBack(c, j - 1) ELSE 0

(***************************************************************************)
(* re.sub(pattern, repl, s).  lenAt[j] is the length of the match of the   *)
(* pattern that starts at position j (0 if none; no pattern used here      *)
(* matches the empty string).  re.sub scans from the left and replaces the *)
(* leftmost non-overlapping matches: a match is replaced unless a replaced *)
(* match that starts before it covers its start.                           *)
(***************************************************************************)
RECURSIVE Replaced(_, _, _)
Replaced(lenAt, w, j) ==
  /\ lenAt[j] > 0
  /\ \A k \in (IF j - w < 1 THEN 1 ELSE j - w)..(j - 1) :
        (lenAt[k] > 0 /\ k + lenAt[k] > j) => ~Replaced(lenAt, w, k)

(* the text of s from lo to hi with the matches starting at S replaced     *)
RECURSIVE ReSubRange(_, _, _, _, _, _)
ReSubRange(s, lenAt, repl, S, lo, hi) ==
  IF S = {} THEN SubSeq(s, lo, hi)
  ELSE LET a == MinOf(S)
           b == MaxOf(S)
       IN  IF a = b
           THEN SubSeq(s, lo, a - 1) \o repl \o SubSeq(s, a + lenAt[a], hi)
           ELSE LET mid == (a + b) \div 2
                    L == {j \in S : j <= mid}
                    R == {j \in S : j > mid}
                    cut == MinOf(R)
                IN  ReSubRange(s, lenAt, repl, L, lo, cut - 1)
                      \o ReSubRange(s, lenAt, repl, R, cut, hi)

ReSub(s, lenAt, repl) ==
  LET n == Len(s)
      lens == {lenAt[j] : j \in 1..n}
      w == MaxOf(lens \cup {0})
      S == {j \in 1..n : Replaced(lenAt, w, j)}
  IN  ReSubRange(s, lenAt, repl, S, 1, n)

(* str.strip() and str.rstrip(",")                                         *)
Strip(s) ==
  LET c == Chars(s)
      n == Len(s)
      lead == WsRun(c, n, 1)
  IN  IF lead = n THEN "" ELSE SubSeq(s, lead + 1, n - WsRunBack(c, n))

RStripComma(s) == SubSeq(s, 1, Len(s) - CommaRunBack(Chars(s), Len(s)))

(* str.rfind(ch): 0-based index of the last occurrence, -1 if none.        *)
RFind(s, ch) ==
  LET c == Chars(s)
      at == {i \in 1..Len(s) : c[i] = ch}
  IN  IF at = {} THEN -1 ELSE MaxOf(at) - 1

(* s[:k] for k >= 0                                                        *)
Prefix(s, k) == SubSeq(s, 1, IF k < Len(s) THEN k ELSE Len(s))

(* " ".join(s.split()): the leading and trailing whitespace disappears     *)
(* and every other whitespace run becomes one space.                       *)
SplitJoin(s) ==
  LET t == Strip(s)
      c == Chars(t)
      n == Len(t)
      RunAt(j) == IF IsSpace(c[j]) /\ ~IsSpace(c[j - 1]) THEN WsRun(c, n, j) ELSE 0
  IN  ReSub(t, SubSeq([j \in 1..n |-> RunAt(j)], 1, n), " ")

(* re.sub(r"\s*,\s*", ", ", s)                                             *)
MatchWsCommaWs(c, n, j) ==
  LET w == WsRun(c, n, j)
  IN  IF j + w <= n /\ c[j + w] = "," THEN w + 1 + WsRun(c, n, j + w + 1) ELSE 0

SubWsCommaWs(s) ==
  LET c == Chars(s)
      n == Len(s)
      At(j) == MatchWsCommaWs(c, n, j)
  IN  ReSub(s, SubSeq([j \in 1..n |-> At(j)], 1, n), ", ")

(* re.sub(r",+", ",", s)                                                   *)
SubCommas(s) ==
  LET c == Chars(s)
      n == Len(s)
      At(j) == CommaRun(c, n, j)
  IN  ReSub(s, SubSeq([j \in 1..n |-> At(j)], 1, n), ",")

(* re.sub(r",\s*,", ",", s)                                                *)
MatchCommaWsComma(c, n, j) ==
  IF c[j] # "," THEN 0
  ELSE LET w == WsRun(c, n, j + 1)
       IN  IF j + 1 + w <= n /\ c[j + 1 + w] = "," THEN w + 2 ELSE 0

SubCommaWsComma(s) ==
  LET c == Chars(s)
      n == Len(s)
      At(j) == MatchCommaWsComma(c, n, j)
  IN  ReSub(s, SubSeq([j \in 1..n |-> At(j)], 1, n), ",")

(* re.sub(r"^\s*,\s*", "", s): only at the start of the string.            *)
SubLeadingComma(s) ==
  LET c == Chars(s)
      n == Len(s)
      k == IF n = 0 THEN 0 ELSE MatchWsCommaWs(c, n, 1)
  IN  SubSeq(s, k + 1, n)

(***************************************************************************)
(* The word patterns of stages 2 and 3.  Every one is \b<lit> followed    *)
(* either by \s+ (ws = TRUE) or by \b (ws = FALSE), matched with           *)
(* re.IGNORECASE.  Every lit starts and ends with a word character.        *)
(***************************************************************************)
MatchWord(c, n, j, l) ==
  LET k == Len(l.lit)
  IN  IF /\ c[j] \in l.first
         /\ j + k - 1 <= n
         /\ \A i \in 2..k : ToLower(c[j + i - 1]) = l.lit[i]
         /\ (j = 1 \/ ~IsWord(c[j - 1]))
      THEN IF l.ws
           THEN (IF WsRun(c, n, j + k) > 0 THEN k + WsRun(c, n, j + k) ELSE 0)
           ELSE (IF j + k - 1 = n \/ ~IsWord(c[j + k]) THEN k ELSE 0)
      ELSE 0

(* re.sub(p, repl, s, flags=re.IGNORECASE) for a word pattern p            *)
SubWord(s, p, repl) ==
  LET c == Chars(s)
      n == Len(s)
      l == [lit |-> Chars(p.lit), ws |-> p.ws,
            first |-> {ch \in WordChars : ToLower(ch) = SubSeq(p.lit, 1, 1)}]
      At(j) == MatchWord(c, n, j, l)
  IN  ReSub(s, SubSeq([j \in 1..n |-> At(j)], 1, n), repl)

filler_phrases ==
  << [lit |-> "very", ws |-> TRUE],
     [lit |-> "really", ws |-> TRUE],
     [lit |-> "extremely", ws |-> TRUE],
     [lit |-> "quite", ws |-> TRUE],
     [lit |-> "somewhat", ws |-> TRUE],
     [lit |-> "a bit", ws |-> TRUE],
     [lit |-> "slightly", ws |-> TRUE],
     [lit |-> "in the style of", ws |-> FALSE],
     [lit |-> "with a", ws |-> TRUE],
     [lit |-> "that is", ws |-> TRUE],
     [lit |-> "which is", ws |-> TRUE],
     [lit |-> "and also", ws |-> FALSE],
     [lit |-> "as well as", ws |-> FALSE] >>

abbreviations ==
  << [lit |-> "background", ws |-> FALSE, repl |-> "bg"],
     [lit |-> "foreground", ws |-> FALSE, repl |-> "fg"],
     [lit |-> "character", ws |-> FALSE, repl |-> "char"],
     [lit |-> "environment", ws |-> FALSE, repl |-> "env"],
     [lit |-> "photorealistic", ws |-> FALSE, repl |-> "photreal"],
     [lit |-> "high quality", ws |-> FALSE, repl |-> "HQ"],
     [lit |-> "high resolution", ws |-> FALSE, repl |-> "hi-res"],
     [lit |-> "cinematic lighting", ws |-> FALSE, repl |-> "cinema light"],
     [lit |-> "professional", ws |-> FALSE, repl |-> "pro"],
     [lit |-> "detailed", ws |-> FALSE, repl |-> "detail"] >>

(* for pattern in filler_phrases: break once within target, else remove    *)
RECURSIVE RemoveFillers(_, _, _)
RemoveFillers(s, T, i) ==
  IF i > Len(filler_phrases) \/ Len(s) <= T THEN s
  ELSE RemoveFillers(SubWord(s, filler_phrases[i], ""), T, i + 1)

(* for pattern, replacement in abbreviations: break once within target     *)
RECURSIVE Abbreviate(_, _, _)
Abbreviate(s, T, i) ==
  IF i > Len(abbreviations) \/ Len(s) <= T THEN s
  ELSE Abbreviate(SubWord(s, abbreviations[i], abbreviations[i].repl), T, i + 1)

(* Strategy 1: normalize whitespace                                        *)
Stage1(s) == SubCommas(SubWsCommaWs(SplitJoin(s)))

(* Strategy 2: remove filler phrases, then clean up spaces and commas      *)
Stage2(s, T) == SubLeadingComma(SubCommaWsComma(SplitJoin(RemoveFillers(s, T, 1))))

(* Strategy 3: abbreviate common terms                                     *)
Stage3(s, T) == Abbreviate(s, T, 1)

(* Strategy 4: truncate at a natural boundary.  cut_point > T * 0.7 and    *)
(* last_space > T * 0.8 are compared exactly (10 * cut > 7 * T); the       *)
(* floating-point product agrees with that for every T below 90 and for    *)
(* T = 800.                                                                *)
(* Stage4 with the slice one character too long                            *)
Stage4OffByOne(s, T) == Strip(RStripComma(Strip(Prefix(s, T + 1))))

Stage4(s, T) ==
  LET truncated == Prefix(s, T)
      last_comma == RFind(truncated, ",")
      last_period == RFind(truncated, ".")
      cut_point == IF last_comma > last_period THEN last_comma ELSE last_period
      last_space == RFind(truncated, " ")
      cut == IF 10 * cut_point > 7 * T
             THEN Strip(Prefix(s, cut_point))
             ELSE IF 10 * last_space > 8 * T
                  THEN Prefix(truncated, last_space)
                  ELSE truncated
  IN  Strip(RStripComma(Strip(cut)))

(* _compress_for_wan that lets only strings shorter than the target pass   *)
CompressForWanStrict(prompt, T) ==
  IF Len(prompt) < T THEN prompt
  ELSE IF Len(Stage1(prompt)) <= T THEN Stage1(prompt)
       ELSE Stage4(Stage3(Stage2(Stage1(prompt), T), T), T)

(* PromptAssembler._compress_for_wan(prompt, target_length)                *)
CompressForWan(prompt, T) ==
  IF Len(prompt) <= T THEN prompt
  ELSE LET s1 == Stage1(prompt)
       IN  IF Len(s1) <= T THEN s1
           ELSE LET s2 == Stage2(s1, T)
                IN  IF Len(s2) <= T THEN s2
                    ELSE LET s3 == Stage3(s2, T)
                         IN  IF Len(s3) <= T THEN s3
                             ELSE Stage4(s3, T)

(***************************************************************************)
(* Data model (consistency/schemas.py).  None is Python's None for an      *)
(* optional Attribute or nested bundle; NoStr is None for an optional      *)
(* string, NoTurn for an optional turn number, NoId for an optional id.    *)
(* Ids stand for uuid4 strings.  The created_at / updated_at timestamps    *)
(* are not part of the model.                                              *)
(***************************************************************************)
None == [none |-> TRUE]

NoStr == "<None>"

NoTurn == -1

NoId == 0

ConfidenceLevel == {"confirmed", "inferred", "default"}

SubjectType == {"human", "animal", "object"}

DetailLevels == {"full", "medium", "minimal"}

Attribute(v, conf, turn) == [value |-> v, confidence |-> conf, source_turn |-> turn]

HairDetails == [color |-> None, length |-> None, style |-> None, texture |-> None]

FaceDetails ==
  [shape |-> None, skin_tone |-> None, eye_color |-> None, eye_shape |-> None,
   nose |-> None, lips |-> None, facial_hair |-> None, distinguishing_features |-> None]

ClothingDetails ==
  [upper_body |-> None, lower_body |-> None, footwear |-> None, accessories |-> None,
   style |-> None, colors |-> None]

BodyDetails == [build |-> None, height |-> None, posture |-> None, age_range |-> None]

HumanDetails ==
  [gender |-> None, hair |-> None, face |-> None, body |-> None, clothing |-> None,
   expression |-> None, pose |-> None]

AnimalDetails ==
  [species |-> None, breed |-> None, color |-> None, pattern |-> None, size |-> None,
   features |-> None, behavior |-> None]

ObjectDetails ==
  [category |-> None, brand_style |-> None, material |-> None, color |-> None,
   finish |-> None, size |-> None, condition |-> None, key_features |-> None]

SubjectSheet(id, name, type, role) ==
  [id |-> id, name |-> name, subject_type |-> type, role |-> role,
   human_details |-> None, animal_details |-> None, object_details |-> None,
   description |-> None]

LightingDetails ==
  [type |-> None, direction |-> None, quality |-> None, color_temp |-> None,
   intensity |-> None, source |-> None]

EnvironmentSheet(id, name) ==
  [id |-> id, name |-> name, setting_type |-> None, location |-> None,
   specific_area |-> None, mood |-> None, time_of_day |-> None, weather |-> None,
   lighting |-> None, color_scheme |-> None, background_elements |-> None, depth |-> None]

CameraDetails == [angle |-> None, shot_type |-> None, movement |-> None, lens |-> None]

VisualStyle(id, name) ==
  [id |-> id, name |-> name, style |-> None, tone |-> None, color_grade |-> None,
   contrast |-> None, camera |-> None, aspect_ratio |-> None, quality |-> None,
   visual_motif |-> None, transition_style |-> None]

VideoConsistencyState(id, session) ==
  [id |-> id, session_id |-> session, subjects |-> <<>>, environment |-> None,
   style |-> None, consistent_elements |-> NoStr, visual_motif |-> NoStr, version |-> 1]

(***************************************************************************)
(* Rendering of sheets as prompt fragments (to_prompt_block).              *)
(***************************************************************************)
(* truth value of an optional string: None and "" are false                *)
Truthy(s) == s # NoStr /\ s # ""

(* the one-element list [s] if cond holds, else the empty list             *)
Opt(cond, s) == IF cond THEN <<s>> ELSE <<>>

(* sep.join(parts)                                                         *)
RECURSIVE Join(_, _)
Join(parts, sep) ==
  IF parts = <<>> THEN ""
  ELSE IF Len(parts) = 1 THEN parts[1]
       ELSE parts[1] \o sep \o Join(Tail(parts), sep)

(* filter(None, parts): the non-empty strings of parts                     *)
FilterNone(parts) == SelectSeq(parts, LAMBDA p : p # "")

(* a hair block that gives the style at minimal detail only                *)
HairBlockStyleAtMinimal(h, level) ==
  Join(   Opt(h.color # None, h.color.value \o " hair")
       \o Opt(h.length # None /\ level # "minimal", h.length.value)
       \o Opt(h.style # None /\ level = "minimal", h.style.value \o " style")
       \o Opt(h.texture # None /\ level = "full", h.texture.value \o " texture"),
       " ")

HairBlock(h, level) ==
  Join(   Opt(h.color # None, h.color.value \o " hair")
       \o Opt(h.length # None /\ level # "minimal", h.length.value)
       \o Opt(h.style # None /\ level = "full", h.style.value \o " style")
       \o Opt(h.texture # None /\ level = "full", h.texture.value \o " texture"),
       " ")

FaceBlock(f, level) ==
  Join(   Opt(f.skin_tone # None, f.skin_tone.value \o " skin")
       \o Opt(f.eye_color # None /\ level # "minimal", f.eye_color.value \o " eyes")
       \o Opt(f.facial_hair # None /\ f.facial_hair.value # "none" /\ level # "minimal",
              "with " \o f.facial_hair.value)
       \o Opt(level = "full" /\ f.shape # None, f.shape.value \o " face")
       \o Opt(level = "full" /\ f.distinguishing_features # None,
              f.distinguishing_features.value),
       ", ")

ClothingBlock(c, level) ==
  Join(   Opt(c.style # None, c.style.value \o " attire")
       \o Opt(c.upper_body # None /\ level # "minimal",
              (IF c.colors # None /\ level = "full" THEN c.colors.value \o " " ELSE "")
                \o c.upper_body.value)
       \o Opt(c.lower_body # None /\ level = "full", c.lower_body.value)
       \o Opt(c.accessories # None /\ level = "full", "wearing " \o c.accessories.value),
       ", ")

BodyBlock(b, level) ==
  Join(   Opt(b.age_range # None, b.age_range.value)
       \o Opt(b.build # None /\ level # "minimal", b.build.value \o " build")
       \o Opt(b.height # None /\ level = "full", b.height.value),
       ", ")

HumanBlock(h, level) ==
  Join(   Opt(h.gender # None, h.gender.value)
       \o Opt(h.body # None /\ BodyBlock(h.body, level) # "", BodyBlock(h.body, level))
       \o Opt(h.face # None /\ FaceBlock(h.face, level) # "", FaceBlock(h.face, level))
       \o Opt(h.hair # None /\ HairBlock(h.hair, level) # "", HairBlock(h.hair, level))
       \o Opt(h.clothing # None /\ level # "minimal" /\ ClothingBlock(h.clothing, level) # "",
              ClothingBlock(h.clothing, level))
       \o Opt(h.expression # None /\ level # "minimal", h.expression.value \o " expression")
       \o Opt(h.pose # None /\ level = "full", h.pose.value),
       ", ")

AnimalBlock(a, level) ==
  Join(   Opt(a.breed # None, a.breed.value)
       \o Opt(a.breed = None /\ a.species # None, a.species.value)
       \o Opt(a.color # None, a.color.value)
       \o Opt(a.pattern # None /\ level # "minimal", a.pattern.value)
       \o Opt(a.size # None /\ level # "minimal", a.size.value \o " sized")
       \o Opt(a.features # None /\ level = "full", "with " \o a.features.value)
       \o Opt(a.behavior # None /\ level = "full", "appearing " \o a.behavior.value),
       ", ")

ObjectBlock(o, level) ==
  Join(   Opt(o.category # None, o.category.value)
       \o Opt(o.brand_style # None /\ level # "minimal", o.brand_style.value \o " style")
       \o Opt(o.color # None, o.color.value)
       \o Opt(o.material # None /\ level # "minimal", o.material.value)
       \o Opt(o.finish # None /\ level = "full", o.finish.value \o " finish")
       \o Opt(o.size # None /\ level = "full", o.size.value)
       \o Opt(o.key_features # None /\ level = "full", o.key_features.value),
       ", ")

(* SubjectSheet.to_prompt_block                                            *)
SubjectBlock(s, level) ==
  IF s.description # None /\ level = "minimal" THEN s.description.value
  ELSE Join(FilterNone(
            Opt(Truthy(s.role) /\ level = "full", "[" \o s.role \o "]")
         \o (IF s.subject_type = "human" /\ s.human_details # None
             THEN <<HumanBlock(s.human_details, level)>>
             ELSE IF s.subject_type = "animal" /\ s.animal_details # None
                  THEN <<AnimalBlock(s.animal_details, level)>>
                  ELSE IF s.subject_type = "object" /\ s.object_details # None
                       THEN <<ObjectBlock(s.object_details, level)>>
                       ELSE <<>>)
         \o Opt(s.description # None /\ level = "full", "(" \o s.description.value \o ")")),
         " ")

LightingBlock(l, level) ==
  Join(   Opt(l.type # None, l.type.value \o " lighting")
       \o Opt(l.color_temp # None /\ level # "minimal", l.color_temp.value)
       \o Opt(l.source # None /\ level = "full", "from " \o l.source.value)
       \o Opt(l.quality # None /\ level = "full", l.quality.value),
       ", ")

(* EnvironmentSheet.to_prompt_block                                        *)
EnvironmentBlock(e, level) ==
  Join(FilterNone(
          Opt(e.location # None, e.location.value)
       \o Opt(e.specific_area # None /\ level # "minimal", e.specific_area.value)
       \o Opt(e.time_of_day # None /\ level # "minimal", e.time_of_day.value)
       \o Opt(e.mood # None, e.mood.value \o " atmosphere")
       \o Opt(e.lighting # None /\ LightingBlock(e.lighting, level) # "",
              LightingBlock(e.lighting, level))
       \o Opt(level = "full" /\ e.color_scheme # None, e.color_scheme.value)
       \o Opt(level = "full" /\ e.background_elements # None,
              "with " \o e.background_elements.value)
       \o Opt(level = "full" /\ e.depth # None, e.depth.value \o " depth of field")),
       ", ")

CameraBlock(c, level) ==
  Join(   Opt(c.shot_type # None, c.shot_type.value \o " shot")
       \o Opt(c.angle # None /\ level # "minimal", c.angle.value \o " angle")
       \o Opt(c.lens # None /\ level = "full", c.lens.value \o " lens"),
       ", ")

(* VisualStyle.to_prompt_block                                             *)
StyleBlock(v, level) ==
  Join(FilterNone(
          Opt(v.style # None, v.style.value)
       \o Opt(v.quality # None /\ level # "minimal", v.quality.value)
       \o Opt(v.tone # None, v.tone.value \o " tone")
       \o Opt(v.color_grade # None /\ level # "minimal", v.color_grade.value \o " color")
       \o Opt(v.camera # None /\ CameraBlock(v.camera, level) # "",
              CameraBlock(v.camera, level))
       \o Opt(v.visual_motif # None /\ level = "full", "with " \o v.visual_motif.value)),
       ", ")

(***************************************************************************)
(* PromptAssembler (consistency/assembler.py).  A fragment of the parts    *)
(* list is kept with the section it was appended for.                      *)
(***************************************************************************)
WanTotal == 800

Part(sec, text) == [sec |-> sec, text |-> text]

(* the strings of a parts list                                             *)
Texts(parts) == [i \in 1..Len(parts) |-> parts[i].text]

(* ", ".join(filter(None, parts))                                          *)
JoinParts(parts) == Join(FilterNone(Texts(parts)), ", ")

(* an optional list argument: None, or a list                              *)
NoList == [given |-> FALSE, ids |-> <<>>]

List(ids) == [given |-> TRUE, ids |-> ids]

InList(x, ids) == \E i \in 1..Len(ids) : ids[i] = x

(* PromptAssembler._get_subject                                            *)
GetSubject(st, subject_id) ==
  IF st = None \/ st.subjects = <<>> THEN None
  ELSE LET at == {i \in 1..Len(st.subjects) : st.subjects[i].id = subject_id}
       IN  IF at = {} THEN None ELSE st.subjects[MinOf(at)]

(* PromptAssembler._get_style_block                                        *)
GetStyleBlock(st, level) ==
  IF st = None \/ st.style = None THEN "" ELSE StyleBlock(st.style, level)

(* the environment fragment, rendered only for the State's own environment *)
EnvironmentPart(st, environment_id, level) ==
  Opt(/\ environment_id # NoId
      /\ st.environment # None
      /\ st.environment.id = environment_id
      /\ EnvironmentBlock(st.environment, level) # "",
      Part("environment", EnvironmentBlock(st.environment, level)))

(* the subject fragments of a keyframe: foreground full, the rest minimal  *)
RECURSIVE KeyframeSubjectParts(_, _, _)
KeyframeSubjectParts(st, ids, foreground) ==
  IF ids = <<>> THEN <<>>
  ELSE LET sheet == GetSubject(st, Head(ids))
           detail == IF InList(Head(ids), foreground) THEN "full" ELSE "minimal"
       IN  Opt(sheet # None /\ SubjectBlock(sheet, detail) # "",
               Part("subject", SubjectBlock(sheet, detail)))
             \o KeyframeSubjectParts(st, Tail(ids), foreground)

(* a keyframe parts list with the action appended before the subjects      *)
KeyframePartsActionFirst(st, subject_ids, environment_id, action, camera, foreground_subjects) ==
     Opt(st.style # None /\ GetStyleBlock(st, "full") # "",
         Part("style", GetStyleBlock(st, "full")))
  \o Opt(Truthy(action), Part("action", Strip(action)))
  \o KeyframeSubjectParts(st, subject_ids, subject_ids)
  \o EnvironmentPart(st, environment_id, "medium")
  \o Opt(Truthy(camera), Part("camera", Strip(camera)))

KeyframeParts(st, subject_ids, environment_id, action, camera, foreground_subjects) ==
  LET foreground == IF foreground_subjects.given /\ foreground_subjects.ids # <<>>
                    THEN foreground_subjects.ids ELSE subject_ids
  IN     Opt(st.style # None /\ GetStyleBlock(st, "full") # "",
             Part("style", GetStyleBlock(st, "full")))
      \o KeyframeSubjectParts(st, subject_ids, foreground)
      \o Opt(Truthy(action), Part("action", Strip(action)))
      \o EnvironmentPart(st, environment_id, "medium")
      \o Opt(Truthy(camera), Part("camera", Strip(camera)))

(* the parts of a video segment prompt with every requested subject        *)
VideoSegmentPartsAllSubjects(st, subject_ids, environment_id, action, camera, motion_hint) ==
  LET found == SelectSeq(subject_ids, LAMBDA id : GetSubject(st, id) # None)
  IN     Opt(st.style # None /\ GetStyleBlock(st, "minimal") # "",
             Part("style", GetStyleBlock(st, "minimal")))
      \o [i \in 1..Len(found) |->
            Part("subject", SubjectBlock(GetSubject(st, found[i]), "medium"))]
      \o Opt(Truthy(action), Part("action", Strip(action)))
      \o Opt(Truthy(motion_hint), Part("motion", Strip(motion_hint)))
      \o EnvironmentPart(st, environment_id, "minimal")
      \o Opt(Truthy(camera), Part("camera", Strip(camera)))
VideoSegmentParts(st, subject_ids, environment_id, action, camera, motion_hint) ==
  LET main_subject == IF subject_ids = <<>> THEN None ELSE GetSubject(st, subject_ids[1])
  IN     Opt(st.style # None /\ GetStyleBlock(st, "minimal") # "",
             Part("style", GetStyleBlock(st, "minimal")))
      \o Opt(main_subject # None /\ SubjectBlock(main_subject, "medium") # "",
             Part("subject", SubjectBlock(main_subject, "medium")))
      \o Opt(Truthy(action), Part("action", Strip(action)))
      \o Opt(Truthy(motion_hint), Part("motion", Strip(motion_hint)))
      \o EnvironmentPart(st, environment_id, "minimal")
      \o Opt(Truthy(camera), Part("camera", Strip(camera)))

ReferenceInstructions == "clear lighting, full visibility, reference sheet style"

ReferenceParts(st, sheet, pose, background) ==
     Opt(st.style # None /\ GetStyleBlock(st, "medium") # "",
         Part("style", GetStyleBlock(st, "medium")))
  \o Opt(SubjectBlock(sheet, "full") # "", Part("subject", SubjectBlock(sheet, "full")))
  \o Opt(Truthy(pose), Part("pose", Strip(pose)))
  \o <<Part("background", background)>>
  \o <<Part("instructions", ReferenceInstructions)>>

(* what a call leaves behind when it raises ValueError                     *)
Raise == [raised |-> TRUE, parts |-> <<>>, joined |-> "", out |-> ""]

Return(parts, out) == [raised |-> FALSE, parts |-> parts, joined |-> JoinParts(parts), out |-> out]

(* assemble_keyframe_prompt without the check for an attached State        *)
AssembleKeyframePromptUnchecked(st, subject_ids, environment_id, action, camera, foreground_subjects, provider) ==
  IF st = None THEN [raised |-> FALSE, parts |-> <<>>, joined |-> "", out |-> ""]
  ELSE [raised |-> FALSE,
        parts |-> KeyframeParts(st, subject_ids, environment_id, action, camera,
                                foreground_subjects),
        joined |-> JoinParts(KeyframeParts(st, subject_ids, environment_id, action, camera,
                                           foreground_subjects)),
        out |-> JoinParts(KeyframeParts(st, subject_ids, environment_id, action, camera,
                                        foreground_subjects))]

(* PromptAssembler.assemble_keyframe_prompt                                *)
AssembleKeyframePrompt(st, subject_ids, environment_id, action, camera, foreground_subjects, provider) ==
  IF st = None THEN Raise
  ELSE LET parts == KeyframeParts(st, subject_ids, environment_id, action, camera,
                                  foreground_subjects)
           prompt == JoinParts(parts)
       IN  Return(parts, IF provider = "wan" THEN CompressForWan(prompt, WanTotal) ELSE prompt)

(* assemble_video_segment_prompt that returns the joined prompt as it is   *)
AssembleVideoSegmentPromptUncompressed(st, subject_ids, environment_id, action, camera, motion_hint) ==
  IF st = None THEN [raised |-> TRUE, parts |-> <<>>, joined |-> "", out |-> ""]
  ELSE [raised |-> FALSE,
        parts |-> VideoSegmentParts(st, subject_ids, environment_id, action, camera,
                                    motion_hint),
        joined |-> JoinParts(VideoSegmentParts(st, subject_ids, environment_id, action,
                                               camera, motion_hint)),
        out |-> JoinParts(VideoSegmentParts(st, subject_ids, environment_id, action,
                                            camera, motion_hint))]

(* PromptAssembler.assemble_video_segment_prompt                           *)
AssembleVideoSegmentPrompt(st, subject_ids, environment_id, action, camera, motion_hint) ==
  IF st = None THEN Raise
  ELSE LET parts == VideoSegmentParts(st, subject_ids, environment_id, action, camera,
                                      motion_hint)
       IN  Return(parts, CompressForWan(JoinParts(parts), WanTotal))

(* assemble_reference_prompt that skips a subject it does not find         *)
AssembleReferencePromptSkipping(st, subject_id, pose, background) ==
  IF st = None THEN [raised |-> TRUE, parts |-> <<>>, joined |-> "", out |-> ""]
  ELSE LET parts == IF GetSubject(st, subject_id) = None
                    THEN <<Part("background", background),
                           Part("instructions", ReferenceInstructions)>>
                    ELSE ReferenceParts(st, GetSubject(st, subject_id), pose, background)
       IN  [raised |-> FALSE, parts |-> parts, joined |-> JoinParts(parts),
            out |-> JoinParts(parts)]

(* PromptAssembler.assemble_reference_prompt                               *)
AssembleReferencePrompt(st, subject_id, pose, background) ==
  IF st = None THEN Raise
  ELSE IF GetSubject(st, subject_id) = None THEN Raise
       ELSE LET parts == ReferenceParts(st, GetSubject(st, subject_id), pose, background)
            IN  Return(parts, JoinParts(parts))

(* PromptAssembler.estimate_prompt_length                                  *)
NoEstimate ==
  [style |-> 0, subjects |-> 0, action |-> 0, environment |-> 0, camera |-> 0, total |-> 0]

RECURSIVE EstimateSubjects(_, _, _)
EstimateSubjects(st, ids, detail) ==
  IF ids = <<>> THEN 0
  ELSE (IF GetSubject(st, Head(ids)) # None
        THEN Len(SubjectBlock(GetSubject(st, Head(ids)), detail)) ELSE 0)
       + EstimateSubjects(st, Tail(ids), detail)

EstimatePromptLength(st, subject_ids, environment_id, action, camera, prompt_type) ==
  IF st = None THEN NoEstimate
  ELSE LET detail == IF prompt_type = "keyframe" THEN "full" ELSE "medium"
           env_detail == IF prompt_type = "keyframe" THEN "medium" ELSE "minimal"
           e == [style |-> IF st.style # None THEN Len(GetStyleBlock(st, detail)) ELSE 0,
                 subjects |-> EstimateSubjects(st, subject_ids, detail),
                 action |-> IF Truthy(action) THEN Len(action) ELSE 0,
                 environment |->
                   IF /\ environment_id # NoId
                      /\ st.environment # None
                      /\ st.environment.id = environment_id
                   THEN Len(EnvironmentBlock(st.environment, env_detail)) ELSE 0,
                 camera |-> IF Truthy(camera) THEN Len(camera) ELSE 0,
                 total |-> 0]
           num_parts == Cardinality({k \in DOMAIN e : e[k] > 0})
           separator_chars == (IF num_parts > 1 THEN num_parts - 1 ELSE 0) * 2
       IN  [e EXCEPT !.total = e.style + e.subjects + e.action + e.environment + e.camera
                                 + separator_chars]

(***************************************************************************)
(* Specification of the compression pipeline as a pure function: the       *)
(* prompt is any concatenation of at most MaxTokens tokens and the target  *)
(* any length up to MaxTarget; one step applies _compress_for_wan.         *)
(***************************************************************************)
Tokens == {"a", " ", ",", ".", "very ", "Detailed"}

RECURSIVE Cat(_)
Cat(ts) == IF ts = <<>> THEN "" ELSE Head(ts) \o Cat(Tail(ts))

Prompts == {Cat(ts) : ts \in UNION {[1..k -> Tokens] : k \in 0..MaxTokens}}

AsmIdle ==
  /\ asmState = None
  /\ aPc = "ready"
  /\ aCall = [op |-> "none"]
  /\ aRaised = FALSE
  /\ aParts = <<>>
  /\ aJoined = ""
  /\ aOut = ""
  /\ aEst = NoEstimate

(* no Manager: these specifications leave the Manager's variables alone    *)
MgrIdle ==
  /\ mState = None
  /\ mDirty = FALSE
  /\ mDb = FALSE
  /\ dbRows = <<>>
  /\ mFresh = 0
  /\ mCall = [op |-> "none"]
  /\ mOps = 0
  /\ mSeen = {}

(* no sheet is being rendered                                              *)
RenderIdle ==
  /\ rSheet = [kind |-> "none"]
  /\ rPc = "done"
  /\ rShown = [level \in DetailLevels |-> {}]

(* the callers of db.py that run side by side, each on its own connection  *)
StoreCallers == {1, 2}

(* the session ids the storage is called with: two rows of table sessions, *)
(* and an id that table sessions does not have                             *)
StoreSessions == {"s1", "s2"}

StoreKeys == StoreSessions \cup {"s3"}

(* the storage of db.py before any call: an empty table                    *)
StoreIdle ==
  /\ dbTable = {}
  /\ dbConn = [c \in StoreCallers |-> [pc |-> "idle"]]
  /\ dbSaved = [s \in StoreKeys |-> None]
  /\ dbCall = [op |-> "none"]

InitCompress ==
  /\ AsmIdle
  /\ MgrIdle
  /\ StoreIdle
  /\ RenderIdle
  /\ cIn \in Prompts
  /\ cT \in 0..MaxTarget
  /\ cOut = ""
  /\ cPc = "call"

Compress ==
  /\ cPc = "call"
  /\ cOut' = CompressForWan(cIn, cT)
  /\ cPc' = "done"
  /\ UNCHANGED <<cIn, cT>>
  /\ UNCHANGED asmVars
  /\ UNCHANGED mgrVars
  /\ UNCHANGED storeVars
  /\ UNCHANGED renderVars

NextCompress == Compress

SpecCompress == InitCompress /\ [][NextCompress]_vars

(***************************************************************************)
(* Specification of the assembler.  The attached State is one of a family  *)
(* of States: up to AsmMaxSubjects subjects, with or without a style and   *)
(* an environment, every attribute either unset, short or long.  No call   *)
(* changes the attached State, so one call after each construction or      *)
(* set_state covers every call.                                            *)
(***************************************************************************)
RECURSIVE Rep(_, _)
Rep(s, k) ==
  IF k = 0 THEN ""
  ELSE LET h == Rep(s, k \div 2)
       IN  IF k % 2 = 0 THEN h \o h ELSE h \o h \o s

ShortValue == "red"

LongValue == Rep("a very detailed background, ", LongRepeat)

LongAction == Rep("really  slowly , ", 50)

(* a bundle with every field holding the attribute a                       *)
Fill(bundle, a) == [f \in DOMAIN bundle |-> a]

FilledHuman(a) ==
  [gender |-> a, hair |-> Fill(HairDetails, a), face |-> Fill(FaceDetails, a),
   body |-> Fill(BodyDetails, a), clothing |-> Fill(ClothingDetails, a),
   expression |-> a, pose |-> a]

FilledSubject(id, a) ==
  IF id = 1
  THEN [SubjectSheet(1, "Sarah", "human", "protagonist") EXCEPT
          !.human_details = FilledHuman(a)]
  ELSE IF id = 2
       THEN [SubjectSheet(2, "Product", "object", "product") EXCEPT
               !.object_details = Fill(ObjectDetails, a), !.description = a]
       ELSE [SubjectSheet(id, NoStr, "animal", NoStr) EXCEPT
               !.animal_details = Fill(AnimalDetails, a)]

AsmEnvId == 11

AsmStyleId == 12

AsmStaleId == 13

AsmUnknownId == 9

FilledEnvironment(a) ==
  [[f \in DOMAIN EnvironmentSheet(AsmEnvId, "Office") |-> a] EXCEPT
     !.id = AsmEnvId, !.name = "Office", !.lighting = Fill(LightingDetails, a)]

FilledStyle(a) ==
  [[f \in DOMAIN VisualStyle(AsmStyleId, "Look") |-> a] EXCEPT
     !.id = AsmStyleId, !.name = "Look", !.camera = Fill(CameraDetails, a)]

AsmFills == {None, Attribute(ShortValue, "inferred", NoTurn), Attribute(LongValue, "confirmed", 1)}

AsmStates ==
  { [VideoConsistencyState(10, "s1") EXCEPT
       !.subjects = [i \in 1..k |-> FilledSubject(i, a)],
       !.environment = IF scene THEN FilledEnvironment(a) ELSE None,
       !.style = IF scene THEN FilledStyle(a) ELSE None]
    : k \in 0..AsmMaxSubjects, a \in AsmFills, scene \in BOOLEAN }

AsmSubjectIds == {<<>>, <<1>>, <<1, 2>>, <<AsmUnknownId, 2>>}

AsmEnvironmentIds == {NoId, AsmEnvId, AsmStaleId}

AsmActions == {NoStr, "  walks to the desk ", LongAction}

AsmCameras == {NoStr, "wide shot"}

AsmMotionHints == {NoStr, "slow pan"}

AsmForegrounds == {NoList, List(<<>>), List(<<1>>)}

AsmPoses == {NoStr, " standing "}

AsmBackgrounds == {"plain white background", ""}

InitAsm ==
  /\ StoreIdle
  /\ RenderIdle
  /\ cIn = ""
  /\ cT = 0
  /\ cOut = ""
  /\ cPc = "done"
  /\ asmState \in {None} \cup AsmStates
  /\ aPc = "ready"
  /\ aCall = [op |-> "none"]
  /\ aRaised = FALSE
  /\ aParts = <<>>
  /\ aJoined = ""
  /\ aOut = ""
  /\ aEst = NoEstimate
  /\ MgrIdle

(* PromptAssembler.set_state                                               *)
SetState(st) ==
  /\ asmState' = st
  /\ aPc' = "ready"
  /\ aCall' = [op |-> "none"]
  /\ aRaised' = FALSE
  /\ aParts' = <<>>
  /\ aJoined' = ""
  /\ aOut' = ""
  /\ aEst' = NoEstimate
  /\ UNCHANGED compressVars
  /\ UNCHANGED storeVars
  /\ UNCHANGED renderVars
  /\ UNCHANGED mgrVars

Returned(call, r) ==
  /\ aPc' = "done"
  /\ aCall' = call
  /\ aRaised' = r.raised
  /\ aParts' = r.parts
  /\ aJoined' = r.joined
  /\ aOut' = r.out
  /\ aEst' = NoEstimate
  /\ UNCHANGED asmState
  /\ UNCHANGED compressVars
  /\ UNCHANGED storeVars
  /\ UNCHANGED renderVars
  /\ UNCHANGED mgrVars

AssembleKeyframe ==
  /\ aPc = "ready"
  /\ \E ids \in AsmSubjectIds, env \in AsmEnvironmentIds, action \in AsmActions,
        camera \in AsmCameras, fg \in AsmForegrounds, provider \in {"imagen3", "wan"} :
       Returned([op |-> "keyframe", subject_ids |-> ids, environment_id |-> env,
                 action |-> action, camera |-> camera, foreground_subjects |-> fg,
                 provider |-> provider],
                AssembleKeyframePrompt(asmState, ids, env, action, camera, fg, provider))

AssembleVideoSegment ==
  /\ aPc = "ready"
  /\ \E ids \in AsmSubjectIds, env \in AsmEnvironmentIds, action \in AsmActions,
        camera \in AsmCameras, motion \in AsmMotionHints :
       Returned([op |-> "video", subject_ids |-> ids, environment_id |-> env,
                 action |-> action, camera |-> camera, motion_hint |-> motion],
                AssembleVideoSegmentPrompt(asmState, ids, env, action, camera, motion))

AssembleReference ==
  /\ aPc = "ready"
  /\ \E id \in {1, 2, AsmUnknownId}, pose \in AsmPoses, background \in AsmBackgrounds :
       Returned([op |-> "reference", subject_id |-> id, pose |-> pose,
                 background |-> background],
                AssembleReferencePrompt(asmState, id, pose, background))

EstimateLength ==
  /\ aPc = "ready"
  /\ \E ids \in AsmSubjectIds, env \in AsmEnvironmentIds, action \in AsmActions,
        camera \in AsmCameras, type \in {"keyframe", "video"} :
       /\ aPc' = "done"
       /\ aCall' = [op |-> "estimate", subject_ids |-> ids, environment_id |-> env,
                    action |-> action, camera |-> camera, prompt_type |-> type]
       /\ aRaised' = FALSE
       /\ aParts' = <<>>
       /\ aJoined' = ""
       /\ aOut' = ""
       /\ aEst' = EstimatePromptLength(asmState, ids, env, action, camera, type)
       /\ UNCHANGED asmState
       /\ UNCHANGED compressVars
       /\ UNCHANGED storeVars
       /\ UNCHANGED renderVars
       /\ UNCHANGED mgrVars

NextAsm ==
  \/ \E st \in AsmStates : SetState(st)
  \/ AssembleKeyframe
  \/ AssembleVideoSegment
  \/ AssembleReference
  \/ EstimateLength

SpecAsm == InitAsm /\ [][NextAsm]_vars

(***************************************************************************)
(* Properties of the compression pipeline and of the assembler.            *)
(***************************************************************************)
AssemblyOps == {"keyframe", "video", "reference"}

(* C1: every video-segment prompt, and every keyframe prompt assembled for *)
(* provider "wan", is at most 800 characters long, whatever the State and  *)
(* the arguments.                                                          *)
VideoPromptWithinLimit ==
  (/\ aPc = "done"
   /\ ~aRaised
   /\ (aCall.op = "video" \/ (aCall.op = "keyframe" /\ aCall.provider = "wan")))
  => Len(aOut) <= WanTotal

(* a video-segment prompt whose joined fragments exceed the limit          *)
LongVideoPromptCompressed ==
  /\ aPc = "done"
  /\ aCall.op = "video"
  /\ ~aRaised
  /\ Len(aJoined) > WanTotal
  /\ aOut # ""
  /\ Len(aOut) <= WanTotal

(* C2: when the prompt is longer than the target, the result of            *)
(* _compress_for_wan is at most the target long (the function is total:    *)
(* it yields a string for every prompt and every target).                  *)
CompressRespectsTarget ==
  (cPc = "done" /\ Len(cIn) > cT) => Len(cOut) <= cT

(* a prompt that stages 1 to 3 leave over the target, truncated by stage 4 *)
TruncatedToTarget ==
  /\ cPc = "done"
  /\ Len(cIn) > cT
  /\ Len(Stage3(Stage2(Stage1(cIn), cT), cT)) > cT
  /\ cOut # ""
  /\ Len(cOut) <= cT

(* C3: a prompt that is at most the target long, also one exactly the      *)
(* target long, is returned unchanged.                                     *)
WithinBudgetUnchanged ==
  (cPc = "done" /\ Len(cIn) <= cT) => cOut = cIn

(* a prompt exactly the target long that normalization would change        *)
ExactLengthKept ==
  /\ cPc = "done"
  /\ cT > 0
  /\ Len(cIn) = cT
  /\ Stage1(cIn) # cIn
  /\ cOut = cIn

(* C4: in the parts list of every assembly method, and so in the joined    *)
(* prompt, no fragment of a later section precedes one of an earlier       *)
(* section: style, subjects, action (motion hint, pose), environment       *)
(* (background), camera; the fixed reference instructions come last.       *)
SectionRank(sec) ==
  CASE sec = "style" -> 1
    [] sec = "subject" -> 2
    [] sec \in {"action", "motion", "pose"} -> 3
    [] sec \in {"environment", "background"} -> 4
    [] sec = "camera" -> 5
    [] sec = "instructions" -> 6

SectionsInOrder ==
  (aPc = "done" /\ ~aRaised /\ aCall.op \in AssemblyOps)
  => /\ \A i, j \in 1..Len(aParts) :
          i < j => SectionRank(aParts[i].sec) <= SectionRank(aParts[j].sec)
     /\ aJoined = Join(FilterNone(Texts(aParts)), ", ")

(* a keyframe prompt with a fragment of each of the five sections          *)
AllSectionsPresent ==
  /\ aPc = "done"
  /\ aCall.op = "keyframe"
  /\ {aParts[i].sec : i \in 1..Len(aParts)} =
       {"style", "subject", "action", "environment", "camera"}
  /\ \A i \in 1..Len(aParts) : aParts[i].text # ""

(* C5 as stated: every Assembler method raises when no State is attached.  *)
NoStateAlwaysRaises ==
  (aPc = "done" /\ asmState = None /\ aCall.op \in AssemblyOps \cup {"estimate"})
  => aRaised

(* C5, amended: without a State the three assembly methods raise and       *)
(* return nothing; estimate_prompt_length does not raise and returns the   *)
(* all-zero breakdown.                                                     *)
NoStateAssemblyRaises ==
  (aPc = "done" /\ asmState = None)
  => IF aCall.op = "estimate"
     THEN ~aRaised /\ aEst = NoEstimate
     ELSE aRaised /\ aOut = "" /\ aParts = <<>>

(* a keyframe assembly attempted without a State                           *)
KeyframeWithoutState ==
  /\ aPc = "done"
  /\ asmState = None
  /\ aCall.op = "keyframe"
  /\ aRaised

(* C6: assemble_reference_prompt raises, and returns no prompt, whenever   *)
(* the subject id is not the id of a subject of the attached State.        *)
ReferenceUnknownSubjectRaises ==
  (aPc = "done" /\ aCall.op = "reference" /\ GetSubject(asmState, aCall.subject_id) = None)
  => aRaised /\ aOut = ""

(* a reference prompt asked for an id that a State with subjects lacks     *)
ReferenceForMissingSubject ==
  /\ aPc = "done"
  /\ aCall.op = "reference"
  /\ asmState # None
  /\ asmState.subjects # <<>>
  /\ GetSubject(asmState, aCall.subject_id) = None
  /\ aRaised

(***************************************************************************)
(* Serialisation and the storage collaborator (db.py).  A document is the  *)
(* dict model_dump(mode="json") yields: one entry per field, enum members  *)
(* as their string values (which the records here hold already), None as   *)
(* null.  json.dumps / json.loads carry the document to the table and      *)
(* back.                                                                   *)
(***************************************************************************)
(* the methods every sheet and bundle of the schema defines                 *)
ModelMethods == {"to_prompt_block"}

(* hasattr(obj, key): true of the fields of a pydantic model and of its    *)
(* methods                                                                 *)
HasAttr(obj, key) == key \in DOMAIN obj \/ key \in ModelMethods

(* setattr(obj, key, attr) on a model that does not allow extra fields     *)
(* raises ValueError when key names no field                               *)
SetAttrRaises(obj, key) == key \notin DOMAIN obj

(* BaseModel.model_dump: a dict with an entry for every field              *)
Dump(obj) == [f \in DOMAIN obj |-> obj[f]]

(* VideoConsistencyState.model_dump(mode="json")                           *)
ModelDump(st) ==
  [Dump(st) EXCEPT !.subjects = [i \in 1..Len(st.subjects) |-> Dump(st.subjects[i])]]

(* validation of a document against the fields of a model: a missing       *)
(* field takes its default, a key that names no field is ignored           *)
Validated(doc, defaults) ==
  [f \in DOMAIN defaults |-> IF f \in DOMAIN doc THEN doc[f] ELSE defaults[f]]

(* a subject document has the required fields id and subject_type          *)
SubjectValid(doc) ==
  /\ {"id", "subject_type"} \subseteq DOMAIN doc
  /\ doc.subject_type \in SubjectType

(* VideoConsistencyState.model_validate(doc): ok is false where pydantic   *)
(* raises ValidationError (a required field is missing)                    *)
ModelValidate(doc) ==
  IF ~({"id", "session_id"} \subseteq DOMAIN doc)
  THEN [ok |-> FALSE, state |-> None]
  ELSE LET st == Validated(doc, VideoConsistencyState(NoId, NoStr))
           n == Len(st.subjects)
       IN  IF \E i \in 1..n : ~SubjectValid(st.subjects[i])
           THEN [ok |-> FALSE, state |-> None]
           ELSE [ok |-> TRUE,
                 state |-> [st EXCEPT !.subjects =
                              [i \in 1..n |->
                                 Validated(st.subjects[i],
                                           SubjectSheet(NoId, NoStr, "human", NoStr))]]]

(* save_consistency_state that inserts a row and never updates one         *)
SaveConsistencyStateInsertOnly(rows, st) ==
  IF rows[st.session_id] # None THEN rows
  ELSE [rows EXCEPT ![st.session_id] =
          [id |-> st.id, session_id |-> st.session_id,
           state_data |-> ModelDump(st), version |-> st.version]]

(* db.save_consistency_state: upsert of the row of the State's session; an *)
(* existing row keeps its id column                                        *)
SaveConsistencyState(rows, st) ==
  LET existing == rows[st.session_id]
  IN  [rows EXCEPT ![st.session_id] =
         IF existing # None
         THEN [existing EXCEPT !.state_data = ModelDump(st), !.version = st.version]
         ELSE [id |-> st.id, session_id |-> st.session_id,
               state_data |-> ModelDump(st), version |-> st.version]]

(* db.get_consistency_state: the stored document as a State, or None       *)
GetConsistencyState(rows, session_id) ==
  IF rows[session_id] = None THEN None
  ELSE ModelValidate(rows[session_id].state_data).state

(***************************************************************************)
(* The consistency manager (consistency/manager.py).                       *)
(***************************************************************************)
(* ConsistencyManager._load_or_create; fresh counts the uuid4 ids drawn,   *)
(* fail says that the collaborator raises                                  *)
LoadOrCreate(session_id, db, rows, fresh, fail) ==
  IF db /\ fail
  THEN [raised |-> TRUE, state |-> None, fresh |-> fresh]
  ELSE IF db /\ GetConsistencyState(rows, session_id) # None
       THEN [raised |-> FALSE, state |-> GetConsistencyState(rows, session_id),
             fresh |-> fresh]
       ELSE [raised |-> FALSE, state |-> VideoConsistencyState(fresh + 1, session_id),
             fresh |-> fresh + 1]

(* ConsistencyManager.state (property)                                     *)
StateProperty(st, session_id, db, rows, fresh, fail) ==
  IF st # None THEN [raised |-> FALSE, state |-> st, fresh |-> fresh]
  ELSE LoadOrCreate(session_id, db, rows, fresh, fail)

(* add_subject giving every subject the details of a human                 *)
NewSubjectHuman(id, name, type, role) ==
  [SubjectSheet(id, name, type, role) EXCEPT !.human_details = HumanDetails]

(* the subject add_subject creates, with the details of its type           *)
NewSubject(id, name, type, role) ==
  LET subject == SubjectSheet(id, name, type, role)
  IN  CASE type = "human" -> [subject EXCEPT !.human_details = HumanDetails]
        [] type = "animal" -> [subject EXCEPT !.animal_details = AnimalDetails]
        [] type = "object" -> [subject EXCEPT !.object_details = ObjectDetails]

(* the subject create_human_subject leaves in the State                    *)
HumanSubject(id, name, role, gender, age_range) ==
  LET subject == NewSubject(id, name, "human", role)
      details == subject.human_details
      with_gender == IF details # None /\ Truthy(gender)
                     THEN [details EXCEPT !.gender = Attribute(gender, "default", NoTurn)]
                     ELSE details
      body == IF with_gender.body = None THEN BodyDetails ELSE with_gender.body
  IN  IF details # None /\ Truthy(age_range)
      THEN [subject EXCEPT !.human_details =
              [with_gender EXCEPT !.body =
                 [body EXCEPT !.age_range = Attribute(age_range, "default", NoTurn)]]]
      ELSE [subject EXCEPT !.human_details = with_gender]

(* create_product_subject tagging the category as confirmed                *)
ProductSubjectConfirmed(id, name, category) ==
  [NewSubject(id, name, "object", "product") EXCEPT
     !.object_details.category = Attribute(category, "confirmed", NoTurn)]

(* the subject create_product_subject leaves in the State                  *)
ProductSubject(id, name, category) ==
  LET subject == NewSubject(id, name, "object", "product")
  IN  IF Truthy(category) /\ subject.object_details # None
      THEN [subject EXCEPT !.object_details.category =
              Attribute(category, "default", NoTurn)]
      ELSE subject

(* position of the first subject with the id, 0 if there is none           *)
SubjectIndex(st, subject_id) ==
  LET at == {i \in 1..Len(st.subjects) : st.subjects[i].id = subject_id}
  IN  IF at = {} THEN 0 ELSE MinOf(at)

(* position of the first subject with the role, 0 if there is none         *)
RoleIndex(st, role) ==
  LET at == {i \in 1..Len(st.subjects) : st.subjects[i].role = role}
  IN  IF at = {} THEN 0 ELSE MinOf(at)

(* str(value) of a keyword value: a string is itself, None reads "None"   *)
Str(value) == IF value = NoStr THEN "None" ELSE value

(* the id field of a sheet after an Attribute object was assigned to it:   *)
(* it equals no id                                                         *)
AttributeAsId == -2

(* what the field key of a model holds after setattr(obj, key, attr): the  *)
(* Attribute object, written for the fields id and name as a value of the  *)
(* field's own kind that equals no id and no name given by a caller        *)
Assigned(key, attr) ==
  IF key = "id" THEN AttributeAsId
  ELSE IF key = "name" THEN "Attribute(" \o attr.value \o ")"
       ELSE attr

(* the loop of the update methods keeping an Attribute that is confirmed    *)
RECURSIVE ApplyUpdatesKeepingConfirmed(_, _, _, _)
ApplyUpdatesKeepingConfirmed(obj, updates, confidence, turn) ==
  IF updates = <<>> THEN obj
  ELSE LET key == Head(updates)[1]
           value == Head(updates)[2]
       IN  IF key \notin DOMAIN obj
           THEN obj
           ELSE IF obj[key] # None /\ obj[key].confidence = "confirmed"
                THEN ApplyUpdatesKeepingConfirmed(obj, Tail(updates), confidence, turn)
                ELSE ApplyUpdatesKeepingConfirmed(
                       [obj EXCEPT ![key] =
                          Assigned(key, Attribute(Str(value), confidence, turn))],
                       Tail(updates), confidence, turn)

(* the loop "for key, value in updates.items()" of the update methods:     *)
(* updates is the list of the (key, value) pairs                           *)
RECURSIVE ApplyUpdates(_, _, _, _)
ApplyUpdates(obj, updates, confidence, turn) ==
  IF updates = <<>> THEN obj
  ELSE LET key == Head(updates)[1]
           value == Head(updates)[2]
       IN  IF ~HasAttr(obj, key)
           THEN ApplyUpdates(obj, Tail(updates), confidence, turn)
           ELSE IF SetAttrRaises(obj, key)
                THEN obj
                ELSE ApplyUpdates(
                       [obj EXCEPT ![key] =
                          Assigned(key, Attribute(Str(value), confidence, turn))],
                       Tail(updates), confidence, turn)

(* the loop over the updates ends in the ValueError of a setattr           *)
UpdateRaises(obj, updates) ==
  \E i \in 1..Len(updates) :
    /\ HasAttr(obj, updates[i][1])
    /\ SetAttrRaises(obj, updates[i][1])
    /\ \A j \in 1..(i - 1) : ~HasAttr(obj, updates[j][1]) \/ ~SetAttrRaises(obj, updates[j][1])

(* the details bundle update_subject selects by the subject's type         *)
DetailsField(type) ==
  CASE type = "human" -> "human_details"
    [] type = "animal" -> "animal_details"
    [] type = "object" -> "object_details"

(* update_subject on the subject found                                     *)
UpdatedSubject(subject, updates, confidence, turn) ==
  LET f == DetailsField(subject.subject_type)
  IN  IF subject[f] # None
      THEN [subject EXCEPT ![f] = ApplyUpdates(@, updates, confidence, turn)]
      ELSE subject

(* update_subject on the subject found ends in the ValueError of a setattr *)
SubjectUpdateRaises(subject, updates) ==
  LET f == DetailsField(subject.subject_type)
  IN  subject[f] # None /\ UpdateRaises(subject[f], updates)

(* remove_subject dropping the last element whatever the position found    *)
PoppedLast(list, i) == SubSeq(list, 1, Len(list) - 1)

(* remove_subject: the list without its element i                          *)
Popped(list, i) == SubSeq(list, 1, i - 1) \o SubSeq(list, i + 1, Len(list))

(* set_environment making a new sheet at every call                        *)
WithEnvironmentReplacing(st, name, fresh) ==
  [state |-> [st EXCEPT !.environment = EnvironmentSheet(fresh + 1, name)],
   fresh |-> fresh + 1]

(* set_environment on the State st: the new State and the ids drawn        *)
WithEnvironment(st, name, fresh) ==
  IF st.environment = None
  THEN [state |-> [st EXCEPT !.environment = EnvironmentSheet(fresh + 1, name)],
        fresh |-> fresh + 1]
  ELSE IF Truthy(name)
       THEN [state |-> [st EXCEPT !.environment.name = name], fresh |-> fresh]
       ELSE [state |-> st, fresh |-> fresh]

(* set_style on the State st                                               *)
WithStyle(st, name, fresh) ==
  IF st.style = None
  THEN [state |-> [st EXCEPT !.style = VisualStyle(fresh + 1, name)], fresh |-> fresh + 1]
  ELSE IF Truthy(name)
       THEN [state |-> [st EXCEPT !.style.name = name], fresh |-> fresh]
       ELSE [state |-> st, fresh |-> fresh]

(* save that clears the dirty flag also when the collaborator raised       *)
SaveOutcomeClearing(st, dirty, db, rows, fail) ==
  IF ~db \/ st = None
  THEN [state |-> st, dirty |-> dirty, rows |-> rows, ret |-> "False", dbRaised |-> FALSE]
  ELSE LET bumped == [st EXCEPT !.version = @ + 1]
       IN  IF fail \/ ~Truthy(bumped.session_id)
           THEN [state |-> bumped, dirty |-> FALSE, rows |-> rows, ret |-> "False",
                 dbRaised |-> TRUE]
           ELSE [state |-> bumped, dirty |-> FALSE,
                 rows |-> SaveConsistencyState(rows, bumped), ret |-> "True",
                 dbRaised |-> FALSE]

(* ConsistencyManager.save on the Manager's fields; fail says that the     *)
(* collaborator raises (db.save_consistency_state also raises when the     *)
(* State has no session id)                                                *)
SaveOutcome(st, dirty, db, rows, fail) ==
  IF ~db \/ st = None
  THEN [state |-> st, dirty |-> dirty, rows |-> rows, ret |-> "False", dbRaised |-> FALSE]
  ELSE LET bumped == [st EXCEPT !.version = @ + 1]
       IN  IF fail \/ ~Truthy(bumped.session_id)
           THEN [state |-> bumped, dirty |-> dirty, rows |-> rows, ret |-> "False",
                 dbRaised |-> TRUE]
           ELSE [state |-> bumped, dirty |-> FALSE,
                 rows |-> SaveConsistencyState(rows, bumped), ret |-> "True",
                 dbRaised |-> FALSE]

(* load that keeps a State already held, as the state property does       *)
LoadOutcomeKeeping(st, dirty, session_id, db, rows, fail) ==
  IF ~db
  THEN [state |-> st, dirty |-> dirty, ret |-> "False", dbRaised |-> FALSE]
  ELSE IF fail
       THEN [state |-> st, dirty |-> dirty, ret |-> "False", dbRaised |-> TRUE]
       ELSE IF GetConsistencyState(rows, session_id) # None
            THEN [state |-> IF st # None THEN st
                            ELSE GetConsistencyState(rows, session_id),
                  dirty |-> FALSE, ret |-> "True", dbRaised |-> FALSE]
            ELSE [state |-> st, dirty |-> dirty, ret |-> "False", dbRaised |-> FALSE]

(* ConsistencyManager.load on the Manager's fields                         *)
LoadOutcome(st, dirty, session_id, db, rows, fail) ==
  IF ~db
  THEN [state |-> st, dirty |-> dirty, ret |-> "False", dbRaised |-> FALSE]
  ELSE IF fail
       THEN [state |-> st, dirty |-> dirty, ret |-> "False", dbRaised |-> TRUE]
       ELSE IF GetConsistencyState(rows, session_id) # None
            THEN [state |-> GetConsistencyState(rows, session_id), dirty |-> FALSE,
                  ret |-> "True", dbRaised |-> FALSE]
            ELSE [state |-> st, dirty |-> dirty, ret |-> "False", dbRaised |-> FALSE]

(***************************************************************************)
(* Specification of the Manager: one Manager of session "s1", with or      *)
(* without a collaborator whose table may hold a row of an earlier run;    *)
(* any sequence of its operations, the collaborator free to raise on every *)
(* call.  A run makes at most MaxOps calls.                                *)
(***************************************************************************)
MaxOps == 3

MgrSession == "s1"

MgrSessions == {"s1", "s2"}

(* the State an earlier run of session "s1" stored                         *)
PriorState ==
  [VideoConsistencyState(40, "s1") EXCEPT
     !.subjects = <<NewSubject(41, "Sarah", "human", "protagonist")>>,
     !.environment = EnvironmentSheet(42, "Office"),
     !.style = VisualStyle(43, "Look"),
     !.version = 2]

(* the State of another session                                            *)
ForeignState ==
  [VideoConsistencyState(50, "s2") EXCEPT
     !.subjects = <<NewSubject(51, "Product", "object", "product")>>,
     !.version = 3]

EmptyTable == [s \in MgrSessions |-> None]

MgrTables ==
  {SaveConsistencyState(EmptyTable, ForeignState),
   SaveConsistencyState(SaveConsistencyState(EmptyTable, ForeignState), PriorState)}

AddSubjectInputs ==
  {[subject_type |-> "human", name |-> "Sarah", role |-> "protagonist"],
   [subject_type |-> "object", name |-> "Product", role |-> "product"],
   [subject_type |-> "animal", name |-> NoStr, role |-> NoStr]}

(* the ids update_subject and remove_subject are called with: every id of  *)
(* a subject of the State, and one that no subject has                     *)
MgrSubjectIds(st) == {st.subjects[i].id : i \in 1..Len(st.subjects)} \cup {99}

(* the roles get_subject_by_role is called with: one that add_subject      *)
(* gives, and one that no subject has                                      *)
MgrRoles == {"protagonist", "villain"}

SubjectUpdates ==
  {<< <<"color", "red">> >>, << <<"color", "blue">> >>, << <<"wingspan", "wide">> >>,
   << <<"to_prompt_block", "x">> >>}

EnvironmentUpdates ==
  {<< <<"mood", "calm">> >>, << <<"wingspan", "wide">> >>, << <<"to_prompt_block", "x">> >>}

StyleUpdates ==
  {<< <<"tone", "warm">> >>, << <<"wingspan", "wide">> >>, << <<"to_prompt_block", "x">> >>}

UpdateSources ==
  {[confidence |-> "inferred", turn |-> NoTurn], [confidence |-> "confirmed", turn |-> 2]}

MgrNames == {NoStr, "", "Studio", "Loft"}

CreateHumanInputs ==
  {[gender |-> "female", age_range |-> "30s"]}

(* a document pydantic accepts although its two subjects share an id and   *)
(* carry no details                                                        *)
TwinsDoc ==
  [id |-> 53, session_id |-> "s2",
   subjects |-> <<[id |-> 54, subject_type |-> "human"],
                  [id |-> 54, subject_type |-> "animal", name |-> "Rex"]>>]

FromDictDocs ==
  {ModelDump(ForeignState), [session_id |-> "s2"],
   [id |-> 52, session_id |-> "s2", theme |-> "dark"], TwinsDoc}

(* the collaborator may raise where the state property consults it         *)
AccessFailures == IF mDb /\ mState = None THEN BOOLEAN ELSE {FALSE}

Init ==
  /\ StoreIdle
  /\ RenderIdle
  /\ cIn = ""
  /\ cT = 0
  /\ cOut = ""
  /\ cPc = "done"
  /\ AsmIdle
  /\ mState = None
  /\ mDirty = FALSE
  /\ mDb \in BOOLEAN
  /\ dbRows \in (IF mDb THEN MgrTables ELSE {EmptyTable})
  /\ mFresh = 0
  /\ mCall = [op |-> "none", ret |-> "None", raised |-> FALSE, dbRaised |-> FALSE,
              dirty0 |-> FALSE]
  /\ mOps = 0
  /\ mSeen = {}

(* the ids of the subjects of a State, none while no State is held         *)
SubjectIds(st) ==
  IF st = None THEN {} ELSE {st.subjects[i].id : i \in 1..Len(st.subjects)}

(* the record of a call: what it returned ("raised" if an exception left   *)
(* it), whether the collaborator raised, and is_dirty and the State before *)
(* the call                                                                *)
Call(op, ret, raised, dbRaised) ==
  [op |-> op, ret |-> ret, raised |-> raised, dbRaised |-> dbRaised, dirty0 |-> mDirty,
   state0 |-> mState]

(* a call of a method that reaches the collaborator only through the state *)
(* property: if that raised, the exception propagates and nothing changes  *)
MgrStep(op, raised, st, dirty, fresh, ret) ==
  /\ mOps < MaxOps
  /\ mOps' = mOps + 1
  /\ mFresh' = fresh
  /\ mState' = IF raised THEN mState ELSE st
  /\ mDirty' = IF raised THEN mDirty ELSE dirty
  /\ mSeen' = mSeen \cup SubjectIds(mState')
  /\ mCall' = Call(op, IF raised THEN "raised" ELSE ret, raised, raised)
  /\ UNCHANGED <<mDb, dbRows>>
  /\ UNCHANGED compressVars
  /\ UNCHANGED storeVars
  /\ UNCHANGED renderVars
  /\ UNCHANGED asmVars

(* a call that ends in the ValueError of a setattr, after the State became *)
(* st and the dirty flag dirty                                             *)
MgrRaise(op, st, dirty, fresh) ==
  /\ mOps < MaxOps
  /\ mOps' = mOps + 1
  /\ mFresh' = fresh
  /\ mState' = st
  /\ mDirty' = dirty
  /\ mSeen' = mSeen \cup SubjectIds(mState')
  /\ mCall' = Call(op, "ValueError", TRUE, FALSE)
  /\ UNCHANGED <<mDb, dbRows>>
  /\ UNCHANGED compressVars
  /\ UNCHANGED storeVars
  /\ UNCHANGED renderVars
  /\ UNCHANGED asmVars

(* the state property read from outside, as get_subject, get_prompt_block  *)
(* and to_dict read it                                                     *)
AccessState ==
  \E fail \in AccessFailures :
    LET acc == StateProperty(mState, MgrSession, mDb, dbRows, mFresh, fail)
    IN  MgrStep("state", acc.raised, acc.state, mDirty, acc.fresh, "object")

(* add_subject numbering the subjects by their position in the list        *)
AddSubjectCounting ==
  \E a \in AddSubjectInputs, fail \in AccessFailures :
    LET acc == StateProperty(mState, MgrSession, mDb, dbRows, mFresh + 1, fail)
        subject == NewSubject(Len(acc.state.subjects) + 1, a.name, a.subject_type, a.role)
    IN  MgrStep("add_subject", acc.raised,
                [acc.state EXCEPT !.subjects = Append(@, subject)], TRUE, acc.fresh,
                "object")

(* ConsistencyManager.add_subject                                          *)
AddSubject ==
  \E a \in AddSubjectInputs, fail \in AccessFailures :
    LET subject == NewSubject(mFresh + 1, a.name, a.subject_type, a.role)
        acc == StateProperty(mState, MgrSession, mDb, dbRows, mFresh + 1, fail)
    IN  MgrStep("add_subject", acc.raised,
                [acc.state EXCEPT !.subjects = Append(@, subject)], TRUE, acc.fresh,
                "object")

(* ConsistencyManager.create_human_subject                                 *)
CreateHumanSubject ==
  \E a \in CreateHumanInputs, fail \in AccessFailures :
    LET subject == HumanSubject(mFresh + 1, "Main Character", "protagonist", a.gender,
                                a.age_range)
        acc == StateProperty(mState, MgrSession, mDb, dbRows, mFresh + 1, fail)
    IN  MgrStep("create_human_subject", acc.raised,
                [acc.state EXCEPT !.subjects = Append(@, subject)], TRUE, acc.fresh,
                "object")

(* ConsistencyManager.create_product_subject                               *)
CreateProductSubject ==
  \E category \in {"laptop"}, fail \in AccessFailures :
    LET subject == ProductSubject(mFresh + 1, "Product", category)
        acc == StateProperty(mState, MgrSession, mDb, dbRows, mFresh + 1, fail)
    IN  MgrStep("create_product_subject", acc.raised,
                [acc.state EXCEPT !.subjects = Append(@, subject)], TRUE, acc.fresh,
                "object")

(* ConsistencyManager.update_subject                                       *)
UpdateSubjectWith(subject_id, updates, src, fail) ==
  LET acc == StateProperty(mState, MgrSession, mDb, dbRows, mFresh, fail)
      i == SubjectIndex(acc.state, subject_id)
      updated == [acc.state EXCEPT !.subjects[i] =
                    UpdatedSubject(@, updates, src.confidence, src.turn)]
  IN  IF acc.raised
      THEN MgrStep("update_subject", TRUE, mState, mDirty, acc.fresh, "raised")
      ELSE /\ subject_id \in MgrSubjectIds(acc.state)
           /\ IF i = 0
              THEN MgrStep("update_subject", FALSE, acc.state, mDirty, acc.fresh, "None")
              ELSE IF SubjectUpdateRaises(acc.state.subjects[i], updates)
                   THEN MgrRaise("update_subject", updated, mDirty, acc.fresh)
                   ELSE MgrStep("update_subject", FALSE, updated, TRUE, acc.fresh,
                                "object")

UpdateSubject ==
  \E updates \in SubjectUpdates, src \in UpdateSources, fail \in AccessFailures :
    LET acc == StateProperty(mState, MgrSession, mDb, dbRows, mFresh, fail)
    IN  \E subject_id \in (IF acc.raised THEN {99} ELSE MgrSubjectIds(acc.state)) :
          UpdateSubjectWith(subject_id, updates, src, fail)

(* ConsistencyManager.remove_subject                                       *)
RemoveSubjectWith(subject_id, fail) ==
  LET acc == StateProperty(mState, MgrSession, mDb, dbRows, mFresh, fail)
      i == SubjectIndex(acc.state, subject_id)
  IN  IF acc.raised
      THEN MgrStep("remove_subject", TRUE, mState, mDirty, acc.fresh, "raised")
      ELSE /\ subject_id \in MgrSubjectIds(acc.state)
           /\ IF i = 0
              THEN MgrStep("remove_subject", FALSE, acc.state, mDirty, acc.fresh, "False")
              ELSE MgrStep("remove_subject", FALSE,
                           [acc.state EXCEPT !.subjects = Popped(@, i)], TRUE, acc.fresh,
                           "True")

RemoveSubject ==
  \E fail \in AccessFailures :
    LET acc == StateProperty(mState, MgrSession, mDb, dbRows, mFresh, fail)
    IN  \E subject_id \in (IF acc.raised THEN {99} ELSE MgrSubjectIds(acc.state)) :
          RemoveSubjectWith(subject_id, fail)

(* ConsistencyManager.get_subject                                          *)
ManagerGetSubjectWith(subject_id, fail) ==
  LET acc == StateProperty(mState, MgrSession, mDb, dbRows, mFresh, fail)
  IN  IF acc.raised
      THEN MgrStep("get_subject", TRUE, mState, mDirty, acc.fresh, "raised")
      ELSE /\ subject_id \in MgrSubjectIds(acc.state)
           /\ MgrStep("get_subject", FALSE, acc.state, mDirty, acc.fresh,
                      IF SubjectIndex(acc.state, subject_id) = 0 THEN "None" ELSE "object")

ManagerGetSubject ==
  \E fail \in AccessFailures :
    LET acc == StateProperty(mState, MgrSession, mDb, dbRows, mFresh, fail)
    IN  \E subject_id \in (IF acc.raised THEN {99} ELSE MgrSubjectIds(acc.state)) :
          ManagerGetSubjectWith(subject_id, fail)

(* ConsistencyManager.get_subject_by_role                                  *)
GetSubjectByRoleWith(role, fail) ==
  LET acc == StateProperty(mState, MgrSession, mDb, dbRows, mFresh, fail)
  IN  IF acc.raised
      THEN MgrStep("get_subject_by_role", TRUE, mState, mDirty, acc.fresh, "raised")
      ELSE MgrStep("get_subject_by_role", FALSE, acc.state, mDirty, acc.fresh,
                   IF RoleIndex(acc.state, role) = 0 THEN "None" ELSE "object")

GetSubjectByRole ==
  \E role \in MgrRoles, fail \in AccessFailures : GetSubjectByRoleWith(role, fail)

(* ConsistencyManager.set_environment                                      *)
SetEnvironmentWith(name, fail) ==
  LET acc == StateProperty(mState, MgrSession, mDb, dbRows, mFresh, fail)
      set == WithEnvironment(acc.state, name, acc.fresh)
  IN  IF acc.raised
      THEN MgrStep("set_environment", TRUE, mState, mDirty, acc.fresh, "raised")
      ELSE MgrStep("set_environment", FALSE, set.state, TRUE, set.fresh, "object")

SetEnvironment ==
  \E name \in MgrNames, fail \in AccessFailures : SetEnvironmentWith(name, fail)

(* ConsistencyManager.update_environment                                   *)
UpdateEnvironmentWith(updates, src, fail) ==
  LET acc == StateProperty(mState, MgrSession, mDb, dbRows, mFresh, fail)
      set == IF acc.state.environment = None
             THEN WithEnvironment(acc.state, NoStr, acc.fresh)
             ELSE [state |-> acc.state, fresh |-> acc.fresh]
      created == acc.state.environment = None
      updated == [set.state EXCEPT !.environment =
                    ApplyUpdates(@, updates, src.confidence, src.turn)]
  IN  IF acc.raised
      THEN MgrStep("update_environment", TRUE, mState, mDirty, acc.fresh, "raised")
      ELSE IF UpdateRaises(set.state.environment, updates)
           THEN MgrRaise("update_environment", updated, mDirty \/ created, set.fresh)
           ELSE MgrStep("update_environment", FALSE, updated, TRUE, set.fresh, "object")

UpdateEnvironment ==
  \E updates \in EnvironmentUpdates, src \in UpdateSources, fail \in AccessFailures :
    UpdateEnvironmentWith(updates, src, fail)

(* ConsistencyManager.set_style                                            *)
SetStyleWith(name, fail) ==
  LET acc == StateProperty(mState, MgrSession, mDb, dbRows, mFresh, fail)
      set == WithStyle(acc.state, name, acc.fresh)
  IN  IF acc.raised
      THEN MgrStep("set_style", TRUE, mState, mDirty, acc.fresh, "raised")
      ELSE MgrStep("set_style", FALSE, set.state, TRUE, set.fresh, "object")

SetStyle ==
  \E name \in MgrNames, fail \in AccessFailures : SetStyleWith(name, fail)

(* ConsistencyManager.update_style                                         *)
UpdateStyleWith(updates, src, fail) ==
  LET acc == StateProperty(mState, MgrSession, mDb, dbRows, mFresh, fail)
      set == IF acc.state.style = None
             THEN WithStyle(acc.state, NoStr, acc.fresh)
             ELSE [state |-> acc.state, fresh |-> acc.fresh]
      created == acc.state.style = None
      updated == [set.state EXCEPT !.style =
                    ApplyUpdates(@, updates, src.confidence, src.turn)]
  IN  IF acc.raised
      THEN MgrStep("update_style", TRUE, mState, mDirty, acc.fresh, "raised")
      ELSE IF UpdateRaises(set.state.style, updates)
           THEN MgrRaise("update_style", updated, mDirty \/ created, set.fresh)
           ELSE MgrStep("update_style", FALSE, updated, TRUE, set.fresh, "object")

UpdateStyle ==
  \E updates \in StyleUpdates, src \in UpdateSources, fail \in AccessFailures :
    UpdateStyleWith(updates, src, fail)

(* ConsistencyManager.set_consistent_elements                              *)
SetConsistentElements ==
  \E description \in {"same red jacket"}, fail \in AccessFailures :
    LET acc == StateProperty(mState, MgrSession, mDb, dbRows, mFresh, fail)
    IN  MgrStep("set_consistent_elements", acc.raised,
                [acc.state EXCEPT !.consistent_elements = description], TRUE, acc.fresh,
                "None")

(* set_visual_motif without the mark on the dirty flag                     *)
SetVisualMotifUnmarked ==
  \E motif \in {"spiral"}, fail \in AccessFailures :
    LET acc == StateProperty(mState, MgrSession, mDb, dbRows, mFresh, fail)
    IN  MgrStep("set_visual_motif", acc.raised,
                [acc.state EXCEPT !.visual_motif = motif], mDirty, acc.fresh, "None")

(* ConsistencyManager.set_visual_motif                                     *)
SetVisualMotif ==
  \E motif \in {"spiral"}, fail \in AccessFailures :
    LET acc == StateProperty(mState, MgrSession, mDb, dbRows, mFresh, fail)
    IN  MgrStep("set_visual_motif", acc.raised,
                [acc.state EXCEPT !.visual_motif = motif], TRUE, acc.fresh, "None")

(* from_dict keeping the session_id of the document                        *)
FromDictUnpinned ==
  \E data \in FromDictDocs :
    LET v == ModelValidate(data)
    IN  IF v.ok
        THEN MgrStep("from_dict", FALSE, v.state, TRUE, mFresh, "True")
        ELSE MgrStep("from_dict", FALSE, mState, mDirty, mFresh, "False")

(* ConsistencyManager.from_dict                                            *)
FromDict ==
  \E data \in FromDictDocs :
    LET v == ModelValidate(data)
    IN  IF v.ok
        THEN MgrStep("from_dict", FALSE, [v.state EXCEPT !.session_id = MgrSession], TRUE,
                     mFresh, "True")
        ELSE MgrStep("from_dict", FALSE, mState, mDirty, mFresh, "False")

(* ConsistencyManager.save                                                 *)
Save ==
  \E fail \in (IF mDb /\ mState # None THEN BOOLEAN ELSE {FALSE}) :
    LET r == SaveOutcome(mState, mDirty, mDb, dbRows, fail)
    IN  /\ mOps < MaxOps
        /\ mOps' = mOps + 1
        /\ mState' = r.state
        /\ mSeen' = mSeen \cup SubjectIds(mState')
        /\ mDirty' = r.dirty
        /\ dbRows' = r.rows
        /\ mCall' = Call("save", r.ret, FALSE, r.dbRaised)
        /\ UNCHANGED <<mDb, mFresh>>
        /\ UNCHANGED compressVars
        /\ UNCHANGED storeVars
        /\ UNCHANGED renderVars
        /\ UNCHANGED asmVars

(* ConsistencyManager.load                                                 *)
Load ==
  \E fail \in (IF mDb THEN BOOLEAN ELSE {FALSE}) :
    LET r == LoadOutcome(mState, mDirty, MgrSession, mDb, dbRows, fail)
    IN  /\ mOps < MaxOps
        /\ mOps' = mOps + 1
        /\ mState' = r.state
        /\ mSeen' = mSeen \cup SubjectIds(mState')
        /\ mDirty' = r.dirty
        /\ mCall' = Call("load", r.ret, FALSE, r.dbRaised)
        /\ UNCHANGED <<mDb, dbRows, mFresh>>
        /\ UNCHANGED compressVars
        /\ UNCHANGED storeVars
        /\ UNCHANGED renderVars
        /\ UNCHANGED asmVars

Next ==
  \/ AccessState
  \/ AddSubject
  \/ CreateHumanSubject
  \/ CreateProductSubject
  \/ UpdateSubject
  \/ RemoveSubject
  \/ ManagerGetSubject
  \/ GetSubjectByRole
  \/ SetEnvironment
  \/ UpdateEnvironment
  \/ SetStyle
  \/ UpdateStyle
  \/ SetConsistentElements
  \/ SetVisualMotif
  \/ FromDict
  \/ Save
  \/ Load

Spec == Init /\ [][Next]_vars

(***************************************************************************)
(* Properties of the Manager.                                              *)
(***************************************************************************)
(* the call took effect as a mutation of the State                         *)
TookEffect(call) ==
  \/ call.op \in {"add_subject", "set_environment", "update_environment", "set_style",
                  "update_style", "set_consistent_elements", "set_visual_motif"}
       /\ ~call.raised
  \/ call.op = "update_subject" /\ call.ret = "object"
  \/ call.op \in {"remove_subject", "from_dict"} /\ call.ret = "True"

DirtyLifecycleStep ==
  /\ (mCall'.op = "state" /\ ~mDirty) => ~mDirty'
  /\ TookEffect(mCall') => mDirty'
  /\ (mDirty /\ ~mDirty') => (mCall'.op \in {"save", "load"} /\ mCall'.ret = "True")

(* C7: a freshly constructed Manager is not dirty and the first (lazy)     *)
(* state access leaves it so; every mutation that takes effect makes       *)
(* is_dirty true; a dirty Manager becomes not dirty only by a save() or a  *)
(* load() that returns true.                                               *)
DirtyLifecycle == (mState = None /\ ~mDirty) /\ [][DirtyLifecycleStep]_vars

(* a dirty Manager made clean by a save() that returned true               *)
DirtyClearedBySave ==
  /\ mCall.op = "save"
  /\ mCall.ret = "True"
  /\ mCall.dirty0
  /\ ~mDirty
  /\ mState.subjects # <<>>

CollaboratorFailureStep ==
  (mCall'.op \in {"save", "load"} /\ mCall'.dbRaised)
  => /\ mCall'.ret = "False"
     /\ ~mCall'.raised
     /\ mDirty' = mDirty
     /\ IF mState = None THEN mState' = None
        ELSE /\ mState' # None
             /\ mState'.subjects = mState.subjects
             /\ mState'.environment = mState.environment
             /\ mState'.style = mState.style

(* C8: when the collaborator raises during save() or load(), the call      *)
(* returns false and propagates nothing, is_dirty keeps its value, and the *)
(* in-memory subjects, environment and style stay as they were.            *)
CollaboratorFailureContained == [][CollaboratorFailureStep]_vars

(* a save() of a dirty State with subjects during which the collaborator   *)
(* raised                                                                  *)
FailedSaveKeepsDirty ==
  /\ mCall.op = "save"
  /\ mCall.dbRaised
  /\ mCall.ret = "False"
  /\ mCall.dirty0
  /\ mDirty
  /\ mState.subjects # <<>>
  /\ mState.environment # None

(* load and from_dict put another State, with the version it carries, in   *)
(* the place of the one held; every other call keeps the State it finds    *)
VersionStep ==
  (mState # None /\ mState' # None /\ mCall'.op \notin {"load", "from_dict"})
  => /\ mState'.version >= mState.version
     /\ (mCall'.op = "save" /\ mCall'.ret = "True")
          => mState'.version = mState.version + 1
     /\ ~(mCall'.op = "save" /\ mCall'.ret = "True")
          => mState'.version = mState.version

(* C9: the version of the State held never decreases, increases by exactly *)
(* 1 on each save() that returns true, and is left unchanged by every      *)
(* other operation, a save() that returns false included.                  *)
VersionCountsPersistedSaves == [][VersionStep]_vars

LoadStep ==
  (mCall'.op = "load")
  => IF mCall'.ret = "True"
     THEN /\ mState' # None
          /\ dbRows[MgrSession] # None
          /\ ModelDump(mState') = dbRows[MgrSession].state_data
          /\ mState'.session_id = MgrSession
          /\ ~mDirty'
     ELSE mState' = mState

(* C10: load() can be called in every Manager state (unloaded, clean,      *)
(* dirty); when it returns true the in-memory State is the stored state of *)
(* the Manager's session and is_dirty is false; when it returns false the  *)
(* State held before is retained.                                          *)
LoadReplacesOrRetains == [](mOps < MaxOps => ENABLED Load) /\ [][LoadStep]_vars

(* a load() that returned true on a dirty Manager, whose State is now the  *)
(* stored one                                                              *)
LoadDiscardsUnsaved ==
  /\ mCall.op = "load"
  /\ mCall.ret = "True"
  /\ mCall.dirty0
  /\ ~mDirty
  /\ ModelDump(mState) = dbRows[MgrSession].state_data

(* the subjects of the State have pairwise distinct ids                    *)
IdsDistinct(st) ==
  \A i, j \in 1..Len(st.subjects) : i # j => st.subjects[i].id # st.subjects[j].id

(* the subject add_subject appended has an id that no subject of the State *)
(* has or ever had                                                         *)
AddSubjectStep ==
  (mCall'.op = "add_subject" /\ ~mCall'.raised)
  => LET n == Len(mState'.subjects)
     IN  mState'.subjects[n].id \notin
           mSeen \cup {mState'.subjects[i].id : i \in 1..(n - 1)}

IdsDistinctEverywhere ==
  /\ mState # None => IdsDistinct(mState)
  /\ \A s \in MgrSessions : dbRows[s] # None => IdsDistinct(dbRows[s].state_data)

(* the subject ids of a State or document, in list order                   *)
IdList(st) == [i \in 1..Len(st.subjects) |-> st.subjects[i].id]

SubjectIdsStep ==
  /\ (mCall'.op # "from_dict" /\ IdsDistinctEverywhere) => IdsDistinctEverywhere'
  /\ (mCall'.op = "from_dict" /\ mCall'.ret = "True")
       => \E data \in FromDictDocs :
            /\ ModelValidate(data).ok
            /\ IdList(mState') = IdList(ModelValidate(data).state)
  /\ AddSubjectStep

DetailsMatchType(subject) ==
  \A t \in SubjectType : (subject[DetailsField(t)] # None) <=> (t = subject.subject_type)

AllDetailsMatch(st) == \A i \in 1..Len(st.subjects) : DetailsMatchType(st.subjects[i])

DetailsMatchEverywhere ==
  /\ mState # None => AllDetailsMatch(mState)
  /\ \A s \in MgrSessions : dbRows[s] # None => AllDetailsMatch(dbRows[s].state_data)

OneDetailsBundleStep ==
  /\ (mCall'.op # "from_dict" /\ DetailsMatchEverywhere) => DetailsMatchEverywhere'
  /\ (mCall'.op = "from_dict" /\ mCall'.ret = "True")
       => \E data \in FromDictDocs :
            /\ ModelValidate(data).ok
            /\ mState'.subjects = ModelValidate(data).state.subjects
            /\ AllDetailsMatch(ModelValidate(data).state) <=> AllDetailsMatch(mState')

StateWorkedOn(fail) == StateProperty(mState, MgrSession, mDb, dbRows, mFresh, fail)

(* the bundle of its type of subject i of the State st                     *)
ActiveBundle(st, i) == st.subjects[i][DetailsField(st.subjects[i].subject_type)]

(* update_subject(subject_id, turn, confidence, key=value) on a known id   *)
(* with key a field of the active bundle: the field holds the new          *)
(* Attribute, the other fields what they held                              *)
LastWriteWinsFor(subject_id, key, value, src, fail) ==
  LET st == StateWorkedOn(fail).state
      i == SubjectIndex(st, subject_id)
  IN  ( /\ ~StateWorkedOn(fail).raised
        /\ i # 0
        /\ ActiveBundle(st, i) # None
        /\ key \in DOMAIN ActiveBundle(st, i)
        /\ UpdateSubjectWith(subject_id, << <<key, value>> >>, src, fail) )
      => /\ mCall'.ret = "object"
         /\ Len(mState'.subjects) = Len(st.subjects)
         /\ DOMAIN ActiveBundle(mState', i) = DOMAIN ActiveBundle(st, i)
         /\ ActiveBundle(mState', i)[key] =
              [value |-> value, confidence |-> src.confidence, source_turn |-> src.turn]
         /\ \A g \in DOMAIN ActiveBundle(st, i) \ {key} :
              ActiveBundle(mState', i)[g] = ActiveBundle(st, i)[g]

LastWriteWinsStep ==
  mCall'.op = "update_subject"
  => \A updates \in SubjectUpdates, src \in UpdateSources, fail \in AccessFailures :
       \A subject_id \in SubjectIds(mState') :
         LastWriteWinsFor(subject_id, updates[1][1], updates[1][2], src, fail)

(* C13: update_subject(id, turn=t, confidence=c, f=v) on a known id, f a   *)
(* field of the subject's active bundle, leaves in f the one Attribute     *)
(* (v, c, t) whatever f held before, also an Attribute that was confirmed  *)
(* when c is inferred; every other field keeps its Attribute.              *)
LastWriteWins == [][LastWriteWinsStep]_vars

(* an inferred value written over a confirmed one                          *)
InferredOverConfirmed ==
  /\ mCall.op = "update_subject"
  /\ mCall.ret = "object"
  /\ mCall.state0 # None
  /\ \E i \in 1..Len(mState.subjects) :
       /\ mState.subjects[i].object_details # None
       /\ mCall.state0.subjects[i].object_details.color = Attribute("red", "confirmed", 2)
       /\ mState.subjects[i].object_details.color = Attribute("blue", "inferred", NoTurn)

(* update_subject with a keyword that names no field of the active bundle *)
UnknownSubjectKeyFor(subject_id, key, value, src, fail) ==
  LET st == StateWorkedOn(fail).state
      i == SubjectIndex(st, subject_id)
  IN  ( /\ ~StateWorkedOn(fail).raised
        /\ i # 0
        /\ ActiveBundle(st, i) # None
        /\ key \notin DOMAIN ActiveBundle(st, i)
        /\ UpdateSubjectWith(subject_id, << <<key, value>> >>, src, fail) )
      => /\ ~mCall'.raised
         /\ ActiveBundle(mState', i) = ActiveBundle(st, i)

(* update_environment with a keyword that names no field of the sheet      *)
UnknownEnvironmentKeyFor(key, value, src, fail) ==
  LET st == StateWorkedOn(fail).state
  IN  ( /\ UpdateEnvironmentWith(<< <<key, value>> >>, src, fail)
        /\ ~StateWorkedOn(fail).raised
        /\ key \notin DOMAIN mState'.environment )
      => /\ ~mCall'.raised
         /\ st.environment # None => mState'.environment = st.environment

(* update_style with a keyword that names no field of the style            *)
UnknownStyleKeyFor(key, value, src, fail) ==
  LET st == StateWorkedOn(fail).state
  IN  ( /\ UpdateStyleWith(<< <<key, value>> >>, src, fail)
        /\ ~StateWorkedOn(fail).raised
        /\ key \notin DOMAIN mState'.style )
      => /\ ~mCall'.raised
         /\ st.style # None => mState'.style = st.style

UnknownKeysIgnoredStep ==
  /\ mCall'.op = "update_subject"
     => \A updates \in SubjectUpdates, src \in UpdateSources, fail \in AccessFailures :
          \A subject_id \in SubjectIds(mState') :
            UnknownSubjectKeyFor(subject_id, updates[1][1], updates[1][2], src, fail)
  /\ mCall'.op = "update_environment"
     => \A updates \in EnvironmentUpdates, src \in UpdateSources, fail \in AccessFailures :
          UnknownEnvironmentKeyFor(updates[1][1], updates[1][2], src, fail)
  /\ mCall'.op = "update_style"
     => \A updates \in StyleUpdates, src \in UpdateSources, fail \in AccessFailures :
          UnknownStyleKeyFor(updates[1][1], updates[1][2], src, fail)

(* C14: update_subject, update_environment and update_style treat every    *)
(* keyword that is not a field name of the target as a no-op: the call     *)
(* raises nothing, adds no field and leaves every field of the target as   *)
(* it was.                                                                 *)
UnknownKeysIgnored == [][UnknownKeysIgnoredStep]_vars

(* a call with an id or role that no subject has returned its "not found" *)
(* and changed nothing                                                     *)
SoftFailure(ret, fail) ==
  /\ ~mCall'.raised
  /\ mCall'.ret = ret
  /\ mState' = StateWorkedOn(fail).state
  /\ mDirty' = mDirty

UnknownIdStep ==
  \A fail \in AccessFailures :
    /\ (mCall'.op = "get_subject" /\ ManagerGetSubjectWith(99, fail)) => SoftFailure("None", fail)
    /\ (mCall'.op = "get_subject_by_role" /\ GetSubjectByRoleWith("villain", fail))
         => SoftFailure("None", fail)
    /\ (mCall'.op = "remove_subject" /\ RemoveSubjectWith(99, fail))
         => SoftFailure("False", fail)
    /\ mCall'.op = "update_subject"
         => \A updates \in SubjectUpdates, src \in UpdateSources :
              UpdateSubjectWith(99, updates, src, fail) => SoftFailure("None", fail)

(* the environment fragment is left out of a keyframe or video prompt      *)
(* assembled with an environment_id that is not the id of the State's      *)
(* environment                                                             *)
StaleEnvironmentOmitted ==
  ( /\ aPc = "done"
    /\ aCall.op \in {"keyframe", "video"}
    /\ asmState # None
    /\ asmState.environment # None
    /\ aCall.environment_id = AsmStaleId )
  => /\ ~aRaised
     /\ \A i \in 1..Len(aParts) : aParts[i].sec # "environment"

(* C15: get_subject, get_subject_by_role, update_subject and               *)
(* remove_subject called with an id or role that matches no subject return *)
(* none / false without raising and leave the State and the dirty flag     *)
(* unchanged (the assembly half of the claim, an environment_id that is    *)
(* not the State's leaves the environment fragment out, is                 *)
(* StaleEnvironmentOmitted of the Assembler).                              *)
UnknownIdsFailSoftly == [][UnknownIdStep]_vars

(* the sheet a later set_environment or set_style leaves: the one there    *)
(* was, under the name given (a call without a name, or with an empty      *)
(* one, keeps the name)                                                    *)
Renamed(sheet, name) == [sheet EXCEPT !.name = IF Truthy(name) THEN name ELSE @]

SetEnvironmentFor(name, fail) ==
  LET st == StateWorkedOn(fail).state
  IN  (SetEnvironmentWith(name, fail) /\ ~StateWorkedOn(fail).raised)
      => /\ mState'.environment # None
         /\ IF st.environment = None
            THEN /\ mState'.environment.name = name
                 /\ mState'.environment.id > mFresh
            ELSE mState'.environment = Renamed(st.environment, name)

SetStyleFor(name, fail) ==
  LET st == StateWorkedOn(fail).state
  IN  (SetStyleWith(name, fail) /\ ~StateWorkedOn(fail).raised)
      => /\ mState'.style # None
         /\ IF st.style = None
            THEN /\ mState'.style.name = name
                 /\ mState'.style.id > mFresh
            ELSE mState'.style = Renamed(st.style, name)

SingleEnvironmentStep ==
  /\ mCall'.op = "set_environment"
     => \A name \in MgrNames, fail \in AccessFailures : SetEnvironmentFor(name, fail)
  /\ mCall'.op = "set_style"
     => \A name \in MgrNames, fail \in AccessFailures : SetStyleFor(name, fail)

SessionPinned == mState # None => mState.session_id = MgrSession

FromDictStep ==
  mCall'.op = "from_dict"
  => /\ mCall'.ret \in {"True", "False"}
     /\ mCall'.ret = "True"
          => /\ mState' # None
             /\ mState'.session_id = MgrSession
             /\ \E data \in FromDictDocs :
                  /\ ModelValidate(data).ok
                  /\ mState'.id = data.id
     /\ mCall'.ret = "False" => (mState' = mState /\ mDirty' = mDirty)

(* C17: whenever the Manager holds a State, the session_id of that State   *)
(* is the Manager's own; after a from_dict(data) that returns true it is   *)
(* the Manager's also when data names another session, and a from_dict     *)
(* that returns false leaves the State held before unchanged.              *)
SessionIdPinned == []SessionPinned /\ [][FromDictStep]_vars

(* a document of another session imported by from_dict                     *)
ForeignDocumentRepinned ==
  /\ mCall.op = "from_dict"
  /\ mCall.ret = "True"
  /\ mState.id = ForeignState.id
  /\ ForeignState.session_id # MgrSession
  /\ mState.session_id = MgrSession
  /\ mState.subjects = ForeignState.subjects

(* a from_dict that returned false on a Manager holding a State with       *)
(* subjects                                                                *)
RejectedDocumentKeepsState ==
  /\ mCall.op = "from_dict"
  /\ mCall.ret = "False"
  /\ mCall.state0 # None
  /\ mCall.state0.subjects # <<>>
  /\ mState = mCall.state0

(***************************************************************************)
(* The storage (db.py): save_consistency_state and get_consistency_state   *)
(* on table consistency_states, called by several Managers side by side.   *)
(* A save is a SELECT followed by an UPDATE or an INSERT, and another      *)
(* caller's statements may run between the two.                            *)
(***************************************************************************)
(* SELECT ... FROM consistency_states WHERE session_id = ?                 *)
SelectBySession(table, session_id) == {r \in table : r.session_id = session_id}

(* the row save_consistency_state inserts for the State st                 *)
StateRow(st) ==
  [id |-> st.id, session_id |-> st.session_id, state_data |-> ModelDump(st),
   version |-> st.version]

(* the INSERT breaks a constraint of the table: PRIMARY KEY on id, UNIQUE   *)
(* on session_id, FOREIGN KEY from session_id to sessions(id)              *)
InsertRaises(table, row) ==
  \/ \E r \in table : r.id = row.id
  \/ \E r \in table : r.session_id = row.session_id
  \/ row.session_id \notin StoreSessions

(* a save that inserts a row whatever the table holds                      *)
WriteStateAppending(table, st, existing) ==
  [raised |-> FALSE, table |-> table \cup {StateRow(st)}]

(* the UPDATE or INSERT of save_consistency_state, existing being what its *)
(* SELECT found                                                            *)
WriteState(table, st, existing) ==
  IF existing
  THEN [raised |-> FALSE,
        table |-> {IF r.session_id = st.session_id
                   THEN [r EXCEPT !.state_data = ModelDump(st), !.version = st.version]
                   ELSE r : r \in table}]
  ELSE IF InsertRaises(table, StateRow(st))
       THEN [raised |-> TRUE, table |-> table]
       ELSE [raised |-> FALSE, table |-> table \cup {StateRow(st)}]

(* get_consistency_state: fetchone() of the SELECT, validated as a State   *)
ReadState(table, session_id) ==
  IF SelectBySession(table, session_id) = {} THEN None
  ELSE ModelValidate((CHOOSE r \in SelectBySession(table, session_id) : TRUE).state_data).state

(* the States the callers save: the State of s1 and the one another        *)
(* Manager made for s1, the State of s2, a State of s2 under the id of     *)
(* that of s1 (as from_dict leaves it), a State of a session that table    *)
(* sessions lacks, and one without session id                              *)
StoreStates ==
  {PriorState, [PriorState EXCEPT !.id = 44, !.version = 3, !.subjects = <<>>],
   ForeignState,
   [ForeignState EXCEPT !.id = PriorState.id], [ForeignState EXCEPT !.session_id = "s3"],
   [ForeignState EXCEPT !.session_id = ""]}

InitStore ==
  /\ cIn = ""
  /\ cT = 0
  /\ cOut = ""
  /\ cPc = "done"
  /\ AsmIdle
  /\ MgrIdle
  /\ StoreIdle
  /\ RenderIdle

StoreStep ==
  /\ UNCHANGED renderVars
  /\ UNCHANGED compressVars
  /\ UNCHANGED asmVars
  /\ UNCHANGED mgrVars

(* save_consistency_state up to its SELECT; without a session id it raises *)
(* ValueError before it touches the table                                  *)
SaveSelect(c) ==
  /\ dbConn[c].pc = "idle"
  /\ \E st \in StoreStates :
       IF ~Truthy(st.session_id)
       THEN /\ dbCall' = [op |-> "save", caller |-> c, session_id |-> st.session_id,
                          raised |-> TRUE]
            /\ UNCHANGED <<dbTable, dbConn, dbSaved>>
       ELSE /\ dbConn' = [dbConn EXCEPT ![c] =
                            [pc |-> "selected", state |-> st,
                             existing |-> SelectBySession(dbTable, st.session_id) # {}]]
            /\ UNCHANGED <<dbTable, dbSaved, dbCall>>
  /\ StoreStep

(* the rest of save_consistency_state: the write, then commit, or rollback *)
(* when the write raised                                                   *)
SaveWrite(c) ==
  /\ dbConn[c].pc = "selected"
  /\ LET st == dbConn[c].state
         w == WriteState(dbTable, st, dbConn[c].existing)
     IN  /\ dbTable' = w.table
         /\ dbSaved' = IF w.raised THEN dbSaved ELSE [dbSaved EXCEPT ![st.session_id] = st]
         /\ dbCall' = [op |-> "save", caller |-> c, session_id |-> st.session_id,
                       raised |-> w.raised]
  /\ dbConn' = [dbConn EXCEPT ![c] = [pc |-> "idle"]]
  /\ StoreStep

(* get_consistency_state(session_id)                                       *)
GetState(c) ==
  /\ dbConn[c].pc = "idle"
  /\ \E session_id \in StoreKeys :
       dbCall' = [op |-> "get", caller |-> c, session_id |-> session_id,
                  ret |-> ReadState(dbTable, session_id)]
  /\ UNCHANGED <<dbTable, dbConn, dbSaved>>
  /\ StoreStep

NextStore == \E c \in StoreCallers : SaveSelect(c) \/ SaveWrite(c) \/ GetState(c)

SpecStore == InitStore /\ [][NextStore]_vars

(* C18: storage is an upsert keyed by session id: after any sequence of    *)
(* save_consistency_state calls, from any number of callers and sessions,  *)
(* the table holds at most one row per session id, and                     *)
(* get_consistency_state(session_id) returns the State most recently saved *)
(* for that session, or None if nothing was saved for it.                  *)
UpsertBySession ==
  /\ \A s \in StoreKeys : Cardinality(SelectBySession(dbTable, s)) <= 1
  /\ \A s \in StoreKeys : ReadState(dbTable, s) = dbSaved[s]
  /\ dbCall.op = "get" => dbCall.ret = dbSaved[dbCall.session_id]

(* a get that returned the second State saved for a session, while another *)
(* session has its own row                                                 *)
SecondSaveRead ==
  /\ dbCall.op = "get"
  /\ dbCall.session_id = "s1"
  /\ dbCall.ret # None
  /\ dbCall.ret.id = 44
  /\ dbCall.ret.version = 3
  /\ \E r \in dbTable : r.session_id = "s1" /\ r.id = PriorState.id
  /\ SelectBySession(dbTable, "s2") # {}

(***************************************************************************)
(* Rendering at the three detail levels (schemas.py): which fields of a    *)
(* sheet a to_prompt_block gives.                                          *)
(***************************************************************************)
(* VideoConsistencyState.to_prompt_block with every section included       *)
StateBlock(st, level) ==
  LET blocks == FilterNone([i \in 1..Len(st.subjects) |-> SubjectBlock(st.subjects[i], level)])
  IN  Join(FilterNone(
              Opt(st.style # None /\ StyleBlock(st.style, level) # "",
                  StyleBlock(st.style, level))
           \o Opt(blocks # <<>>, Join(blocks, ". "))
           \o Opt(st.environment # None /\ EnvironmentBlock(st.environment, level) # "",
                  EnvironmentBlock(st.environment, level))
           \o Opt(level = "full" /\ Truthy(st.consistent_elements),
                  "Consistent elements: " \o st.consistent_elements)),
           ". ")

(* to_prompt_block of the sheet of the kind                                *)
ToPromptBlock(kind, sheet, level) ==
  CASE kind = "hair" -> HairBlock(sheet, level)
    [] kind = "face" -> FaceBlock(sheet, level)
    [] kind = "clothing" -> ClothingBlock(sheet, level)
    [] kind = "body" -> BodyBlock(sheet, level)
    [] kind = "human" -> HumanBlock(sheet, level)
    [] kind = "animal" -> AnimalBlock(sheet, level)
    [] kind = "object" -> ObjectBlock(sheet, level)
    [] kind = "subject" -> SubjectBlock(sheet, level)
    [] kind = "lighting" -> LightingBlock(sheet, level)
    [] kind = "environment" -> EnvironmentBlock(sheet, level)
    [] kind = "camera" -> CameraBlock(sheet, level)
    [] kind = "style" -> StyleBlock(sheet, level)
    [] kind = "state" -> StateBlock(sheet, level)

(* the paths below prefix to the fields among fields that the sheet has    *)
(* populated                                                               *)
Under(prefix, sheet, fields) ==
  IF sheet = None THEN {} ELSE {prefix \o <<f>> : f \in {g \in fields : sheet[g] # None}}

(* the paths to the populated Attribute fields of the bundles              *)
HumanLeaves(prefix, h) ==
  IF h = None THEN {}
  ELSE Under(prefix, h, {"gender", "expression", "pose"})
       \cup Under(prefix \o <<"hair">>, h.hair, DOMAIN HairDetails)
       \cup Under(prefix \o <<"face">>, h.face, DOMAIN FaceDetails)
       \cup Under(prefix \o <<"body">>, h.body, DOMAIN BodyDetails)
       \cup Under(prefix \o <<"clothing">>, h.clothing, DOMAIN ClothingDetails)

SubjectLeaves(prefix, s) ==
  (IF Truthy(s.role) THEN {prefix \o <<"role">>} ELSE {})
  \cup Under(prefix, s, {"description"})
  \cup HumanLeaves(prefix \o <<"human_details">>, s.human_details)
  \cup Under(prefix \o <<"animal_details">>, s.animal_details, DOMAIN AnimalDetails)
  \cup Under(prefix \o <<"object_details">>, s.object_details, DOMAIN ObjectDetails)

EnvironmentLeaves(prefix, e) ==
  IF e = None THEN {}
  ELSE Under(prefix, e, DOMAIN e \ {"id", "name", "lighting"})
       \cup Under(prefix \o <<"lighting">>, e.lighting, DOMAIN LightingDetails)

StyleLeaves(prefix, v) ==
  IF v = None THEN {}
  ELSE Under(prefix, v, DOMAIN v \ {"id", "name", "camera"})
       \cup Under(prefix \o <<"camera">>, v.camera, DOMAIN CameraDetails)

StateLeaves(st) ==
  StyleLeaves(<<"style">>, st.style)
  \cup UNION {SubjectLeaves(<<"subjects", i>>, st.subjects[i]) : i \in 1..Len(st.subjects)}
  \cup EnvironmentLeaves(<<"environment">>, st.environment)
  \cup (IF Truthy(st.consistent_elements) THEN {<<"consistent_elements">>} ELSE {})

(* the paths to the populated fields of the sheet of the kind              *)
Leaves(kind, sheet) ==
  CASE kind = "human" -> HumanLeaves(<<>>, sheet)
    [] kind = "subject" -> SubjectLeaves(<<>>, sheet)
    [] kind = "environment" -> EnvironmentLeaves(<<>>, sheet)
    [] kind = "style" -> StyleLeaves(<<>>, sheet)
    [] kind = "state" -> StateLeaves(sheet)
    [] OTHER -> Under(<<>>, sheet, DOMAIN sheet)

(* the sheet with the field at the path left unpopulated                   *)
RECURSIVE ClearedAt(_, _)
ClearedAt(sheet, path) ==
  IF Len(path) = 1
  THEN [sheet EXCEPT ![path[1]] =
          IF path[1] \in {"role", "consistent_elements"} THEN NoStr ELSE None]
  ELSE [sheet EXCEPT ![path[1]] = ClearedAt(@, Tail(path))]

(* the fields whose value the block of the level gives: those without      *)
(* which the block reads differently                                       *)
Shown(kind, sheet, level) ==
  {path \in Leaves(kind, sheet) :
     ToPromptBlock(kind, sheet, level) # ToPromptBlock(kind, ClearedAt(sheet, path), level)}

(* the bundle with the fields of the set on populated, each by a value of  *)
(* its own                                                                 *)
Populated(bundle, on) ==
  [f \in DOMAIN bundle |-> IF f \in on THEN Attribute(f, "inferred", NoTurn) ELSE None]

(* a nested bundle: absent, empty, or with every field populated           *)
Nested(bundle) == {None, bundle, Populated(bundle, DOMAIN bundle)}

RenderBundles ==
  [kind : {"hair"}, sheet : {Populated(HairDetails, on) : on \in SUBSET DOMAIN HairDetails}]
  \cup [kind : {"face"},
        sheet : {Populated(FaceDetails, on) : on \in SUBSET DOMAIN FaceDetails}]
  \cup [kind : {"clothing"},
        sheet : {Populated(ClothingDetails, on) : on \in SUBSET DOMAIN ClothingDetails}]
  \cup [kind : {"body"}, sheet : {Populated(BodyDetails, on) : on \in SUBSET DOMAIN BodyDetails}]
  \cup [kind : {"animal"},
        sheet : {Populated(AnimalDetails, on) : on \in SUBSET DOMAIN AnimalDetails}]
  \cup [kind : {"object"},
        sheet : {Populated(ObjectDetails, on) : on \in SUBSET DOMAIN ObjectDetails}]
  \cup [kind : {"lighting"},
        sheet : {Populated(LightingDetails, on) : on \in SUBSET DOMAIN LightingDetails}]
  \cup [kind : {"camera"},
        sheet : {Populated(CameraDetails, on) : on \in SUBSET DOMAIN CameraDetails}]

RenderHumans ==
  {[Populated(HumanDetails, on) EXCEPT
      !.hair = hair, !.face = face, !.body = body, !.clothing = clothing]
   : on \in SUBSET {"gender", "expression", "pose"}, hair \in Nested(HairDetails),
     face \in Nested(FaceDetails), body \in Nested(BodyDetails),
     clothing \in Nested(ClothingDetails)}

FullHuman ==
  [Populated(HumanDetails, {"gender", "expression", "pose"}) EXCEPT
     !.hair = Populated(HairDetails, DOMAIN HairDetails),
     !.face = Populated(FaceDetails, DOMAIN FaceDetails),
     !.body = Populated(BodyDetails, DOMAIN BodyDetails),
     !.clothing = Populated(ClothingDetails, DOMAIN ClothingDetails)]

(* subjects as add_subject and update make them, with and without role and *)
(* description override                                                    *)
RenderSubjects ==
  {[NewSubject(id, "Sarah", type, role) EXCEPT
      !.human_details = IF type = "human" /\ filled THEN FullHuman ELSE @,
      !.animal_details =
         IF type = "animal" /\ filled THEN Populated(AnimalDetails, DOMAIN AnimalDetails) ELSE @,
      !.object_details =
         IF type = "object" /\ filled THEN Populated(ObjectDetails, DOMAIN ObjectDetails) ELSE @,
      !.description = description]
   : id \in {1}, type \in SubjectType, role \in {NoStr, "hero"}, filled \in BOOLEAN,
     description \in {None, Attribute("a tall woman", "confirmed", 1)}}

RenderEnvironments ==
  {[Populated(EnvironmentSheet(AsmEnvId, "Office"), on) EXCEPT
      !.id = AsmEnvId, !.name = "Office", !.lighting = lighting]
   : on \in SUBSET (DOMAIN EnvironmentSheet(AsmEnvId, "Office") \ {"id", "name", "lighting"}),
     lighting \in {None, Populated(LightingDetails, DOMAIN LightingDetails)}}

RenderStyles ==
  {[Populated(VisualStyle(AsmStyleId, "Look"), on) EXCEPT
      !.id = AsmStyleId, !.name = "Look", !.camera = camera]
   : on \in SUBSET (DOMAIN VisualStyle(AsmStyleId, "Look") \ {"id", "name", "camera"}),
     camera \in {None, Populated(CameraDetails, DOMAIN CameraDetails)}}

RenderStates ==
  {[VideoConsistencyState(10, "s1") EXCEPT
      !.subjects = subjects,
      !.style = IF scene THEN FilledStyle(Attribute("film", "inferred", NoTurn)) ELSE None,
      !.environment =
         IF scene THEN FilledEnvironment(Attribute("loft", "inferred", NoTurn)) ELSE None,
      !.consistent_elements = elements]
   : subjects \in {<<>>} \cup {<<a>> : a \in RenderSubjects}
                  \cup {<<a, [b EXCEPT !.id = 2]>> :
                          a \in {x \in RenderSubjects : x.subject_type = "human" /\ Truthy(x.role)},
                          b \in {x \in RenderSubjects : x.subject_type = "object" /\ Truthy(x.role)}},
     scene \in BOOLEAN, elements \in {NoStr, "same red jacket"}}

RenderSheets ==
  RenderBundles
  \cup [kind : {"human"}, sheet : RenderHumans]
  \cup [kind : {"subject"}, sheet : RenderSubjects]
  \cup [kind : {"environment"}, sheet : RenderEnvironments]
  \cup [kind : {"style"}, sheet : RenderStyles]
  \cup [kind : {"state"}, sheet : RenderStates]

InitRender ==
  /\ cIn = ""
  /\ cT = 0
  /\ cOut = ""
  /\ cPc = "done"
  /\ AsmIdle
  /\ MgrIdle
  /\ StoreIdle
  /\ rSheet \in RenderSheets
  /\ rPc = "ready"
  /\ rShown = [level \in DetailLevels |-> {}]

(* to_prompt_block of the sheet at each of the three levels                *)
Render ==
  /\ rPc = "ready"
  /\ rPc' = "done"
  /\ rShown' = [level \in DetailLevels |-> Shown(rSheet.kind, rSheet.sheet, level)]
  /\ UNCHANGED rSheet
  /\ UNCHANGED compressVars
  /\ UNCHANGED asmVars
  /\ UNCHANGED mgrVars
  /\ UNCHANGED storeVars

NextRender == Render

SpecRender == InitRender /\ [][NextRender]_vars

(* C19 as stated: for every sheet type and every population of its fields  *)
(* the fields rendered at minimal are among those rendered at medium, and  *)
(* those among the fields rendered at full.                                *)
DetailMonotone ==
  rPc = "done" => (rShown["minimal"] \subseteq rShown["medium"]
                   /\ rShown["medium"] \subseteq rShown["full"])

(* C19, amended: for every sheet type and every population the fields      *)
(* rendered at medium are among those rendered at full, and a field        *)
(* rendered at minimal is rendered at medium unless it is the description  *)
(* override of a subject, which to_prompt_block gives at minimal and at     *)
(* full but not at medium.                                                 *)
DetailMonotoneButDescription ==
  rPc = "done"
  => /\ rShown["medium"] \subseteq rShown["full"]
     /\ \A path \in rShown["minimal"] \ rShown["medium"] : path[Len(path)] = "description"
     /\ rSheet.kind \notin {"subject", "state"} => rShown["minimal"] \subseteq rShown["medium"]

(* a subject with a description override and populated details, rendered   *)
(* at the three levels                                                     *)
DescriptionOnlyAtMinimal ==
  /\ rPc = "done"
  /\ rSheet.kind = "subject"
  /\ rShown["minimal"] = {<<"description">>}
  /\ <<"description">> \notin rShown["medium"]
  /\ <<"human_details", "gender">> \in rShown["medium"]
  /\ <<"description">> \in rShown["full"]
  /\ <<"human_details", "clothing", "lower_body">> \in rShown["full"] \ rShown["medium"]

(* the subject fragments of a keyframe prompt when each requested subject  *)
(* found in the State is rendered at full detail if its id is in the list  *)
(* foreground and at minimal detail otherwise                              *)
ForegroundTexts(st, subject_ids, foreground) ==
  FilterNone([i \in 1..Len(subject_ids) |->
                IF GetSubject(st, subject_ids[i]) = None THEN ""
                ELSE SubjectBlock(GetSubject(st, subject_ids[i]),
                                  IF InList(subject_ids[i], foreground) THEN "full"
                                  ELSE "minimal")])

(* the subject fragments of the last call                                  *)
SubjectTexts == Texts(SelectSeq(aParts, LAMBDA part : part.sec = "subject"))

(* C20: in assemble_keyframe_prompt, for every supplied foreground_subjects *)
(* list, each requested subject found in the State is rendered at full     *)
(* detail exactly when its id is in the list and at minimal detail         *)
(* otherwise; only when foreground_subjects is omitted are all requested   *)
(* subjects rendered at full.                                              *)
ForegroundDecidesDetail ==
  (aPc = "done" /\ aCall.op = "keyframe" /\ ~aRaised)
  => SubjectTexts =
       ForegroundTexts(asmState, aCall.subject_ids,
                       IF aCall.foreground_subjects.given THEN aCall.foreground_subjects.ids
                       ELSE aCall.subject_ids)

(***************************************************************************)
(* C21: where the confidence of an Attribute comes from.                   *)
(***************************************************************************)
(* the value at the path of a sheet                                       *)
RECURSIVE At(_, _)
At(sheet, path) == IF path = <<>> THEN sheet ELSE At(sheet[path[1]], Tail(path))

(* the Attributes of a subject, each with the subject's id and its field   *)
SubjectAttributes(s) ==
  {<<s.id, p, At(s, p)>> : p \in SubjectLeaves(<<>>, s) \ {<<"role">>}}

(* the Attributes a State holds, each with the id of its sheet and its     *)
(* field                                                                   *)
StateAttributes(st) ==
  IF st = None THEN {}
  ELSE UNION {SubjectAttributes(st.subjects[i]) : i \in 1..Len(st.subjects)}
       \cup (IF st.environment = None THEN {}
             ELSE {<<st.environment.id, p, At(st.environment, p)>> :
                     p \in EnvironmentLeaves(<<>>, st.environment)})
       \cup (IF st.style = None THEN {}
             ELSE {<<st.style.id, p, At(st.style, p)>> : p \in StyleLeaves(<<>>, st.style)})

(* the Attributes of the documents the step can have imported or loaded    *)
BlobAttributes ==
  IF mCall'.op = "from_dict"
  THEN UNION {StateAttributes(ModelValidate(data).state) : data \in FromDictDocs}
  ELSE IF mDb /\ (mState = None \/ mCall'.op = "load")
       THEN StateAttributes(GetConsistencyState(dbRows, MgrSession))
       ELSE {}

(* the Attributes the step put into the State that neither the State nor   *)
(* a document it read held before                                          *)
ProducedAttributes ==
  IF mState' = mState THEN {}
  ELSE StateAttributes(mState') \ (StateAttributes(mState) \cup BlobAttributes)

UpdateOps == {"update_subject", "update_environment", "update_style"}

(* the step is an update_* call made without an explicit confidence        *)
UpdateWithoutConfidence ==
  LET src == [confidence |-> "inferred", turn |-> NoTurn]
  IN  \/ /\ mCall'.op = "update_subject"
         /\ \E updates \in SubjectUpdates, subject_id \in SubjectIds(mState') :
              UpdateSubjectWith(subject_id, updates, src, FALSE)
      \/ /\ mCall'.op = "update_environment"
         /\ \E updates \in EnvironmentUpdates : UpdateEnvironmentWith(updates, src, FALSE)
      \/ /\ mCall'.op = "update_style"
         /\ \E updates \in StyleUpdates : UpdateStyleWith(updates, src, FALSE)

NoConfirmedProducedStep ==
  LET produced == ProducedAttributes
  IN  /\ (\E a \in produced : a[3].confidence = "confirmed")
         => (mCall'.op \in UpdateOps /\ ~UpdateWithoutConfidence)
      /\ mCall'.op \in {"create_human_subject", "create_product_subject"}
         => \A a \in produced : a[3].confidence = "default"
      /\ mCall'.op \in UpdateOps
         => \A a \in produced : a[3].confidence \in {"inferred", "confirmed"}

(* C21: a step of the Manager puts a Confirmed Attribute into the State    *)
(* only if it is an update_* call whose caller passed Confirmed (or the    *)
(* Attribute came with an imported or loaded document); the Attributes     *)
(* create_human_subject and create_product_subject put in are Default,     *)
(* and those of an update_* call without a confidence are Inferred         *)
NoConfirmedProduced == [][NoConfirmedProducedStep]_vars

(* an update without a confidence wrote the colour of a product whose      *)
(* category create_product_subject had set                                 *)
DefaultThenInferred ==
  /\ mCall.op = "update_subject"
  /\ mCall.ret = "object"
  /\ \E i \in 1..Len(mState.subjects) :
       /\ mState.subjects[i].object_details # None
       /\ mState.subjects[i].object_details.category = Attribute("laptop", "default", NoTurn)
       /\ mState.subjects[i].object_details.color = Attribute("red", "inferred", NoTurn)
       /\ mCall.state0.subjects[i].object_details.color = None
  /\ \A a \in StateAttributes(mState) : a[3].confidence # "confirmed"

(***************************************************************************)
(* Specification of the edits of sheets: a Manager without collaborator    *)
(* that holds a human subject, a product, an environment and a style, and  *)
(* the calls that write to these sheets or read them back: the update      *)
(* methods with keywords of every kind, get_prompt_block, and the          *)
(* generate_reference handler of the application.                          *)
(***************************************************************************)
(* the State after create_human_subject(gender="female", age_range="30s"), *)
(* create_product_subject(category="laptop"), set_environment("Studio")    *)
(* and set_style("Loft") on a new Manager                                  *)
EditState ==
  [VideoConsistencyState(2, MgrSession) EXCEPT
     !.subjects = <<HumanSubject(1, "Main Character", "protagonist", "female", "30s"),
                    ProductSubject(3, "Product", "laptop")>>,
     !.environment = EnvironmentSheet(4, "Studio"),
     !.style = VisualStyle(5, "Loft")]

(* the keywords of the update_subject calls: a field with a value, with an *)
(* empty value and with no value, and the field of a nested bundle         *)
SubjectEdits ==
  {<< <<"color", "red">> >>, << <<"color", "">> >>, << <<"color", NoStr>> >>,
   << <<"body", "slim">> >>}

EnvironmentEdits ==
  {<< <<"mood", "calm">> >>, << <<"mood", "">> >>, << <<"id", "env-2">> >>,
   << <<"name", "Loft">> >>, << <<"lighting", "soft">> >>}

StyleEdits ==
  {<< <<"tone", "warm">> >>, << <<"tone", NoStr>> >>, << <<"id", "style-2">> >>,
   << <<"camera", "wide">> >>}

(* turn and confidence of an update call that passes neither               *)
DefaultSource == [confidence |-> "inferred", turn |-> NoTurn]

ReferenceUrls == {"https://example.com/reference.png"}

(* what the image provider answers to generate_image                       *)
TaskStatuses == {"completed", "processing", "error"}

(* the methods of ConsistencyManager                                       *)
ManagerMethods ==
  {"state", "_load_or_create", "save", "load", "is_dirty", "add_subject", "get_subject",
   "get_subject_by_role", "update_subject", "remove_subject", "set_environment",
   "update_environment", "set_style", "update_style", "set_consistent_elements",
   "set_visual_motif", "get_prompt_block", "get_subject_prompt", "to_dict", "from_dict",
   "create_human_subject", "create_product_subject"}

(* the value is an Attribute object                                        *)
IsAttribute(x) == DOMAIN x = {"value", "confidence", "source_turn"}

(* SubjectSheet.to_prompt_block ends in an AttributeError: it calls        *)
(* to_prompt_block on a nested field that holds an Attribute               *)
SubjectRenderRaises(s, level) ==
  /\ ~(s.description # None /\ level = "minimal")
  /\ s.subject_type = "human"
  /\ s.human_details # None
  /\ \/ IsAttribute(s.human_details.body)
     \/ IsAttribute(s.human_details.face)
     \/ IsAttribute(s.human_details.hair)
     \/ IsAttribute(s.human_details.clothing) /\ level # "minimal"

(* VideoConsistencyState.to_prompt_block ends in an AttributeError         *)
RenderRaises(st, level) ==
  \/ st.style # None /\ IsAttribute(st.style.camera)
  \/ \E i \in 1..Len(st.subjects) : SubjectRenderRaises(st.subjects[i], level)
  \/ st.environment # None /\ IsAttribute(st.environment.lighting)

InitEdit ==
  /\ StoreIdle
  /\ RenderIdle
  /\ cIn = ""
  /\ cT = 0
  /\ cOut = ""
  /\ cPc = "done"
  /\ AsmIdle
  /\ mState = EditState
  /\ mDirty = TRUE
  /\ mDb = FALSE
  /\ dbRows = EmptyTable
  /\ mFresh = 5
  /\ mCall = [op |-> "none", ret |-> "None", raised |-> FALSE, dbRaised |-> FALSE,
              dirty0 |-> FALSE]
  /\ mOps = 0
  /\ mSeen = SubjectIds(EditState)

(* update_subject with one of the keywords                                 *)
EditSubject ==
  \E subject_id \in MgrSubjectIds(mState), updates \in SubjectEdits :
    UpdateSubjectWith(subject_id, updates, DefaultSource, FALSE)

(* update_environment with one of the keywords                             *)
EditEnvironment ==
  \E updates \in EnvironmentEdits : UpdateEnvironmentWith(updates, DefaultSource, FALSE)

(* update_style with one of the keywords                                   *)
EditStyle ==
  \E updates \in StyleEdits : UpdateStyleWith(updates, DefaultSource, FALSE)

(* a call that only reads the State: its record keeps what it returned     *)
ReadStep(op, raised, ret, out) ==
  /\ mOps < MaxOps
  /\ mOps' = mOps + 1
  /\ mCall' = Call(op, ret, raised, FALSE) @@ [out |-> out]
  /\ UNCHANGED <<mState, mDirty, mDb, dbRows, mFresh, mSeen>>
  /\ UNCHANGED compressVars
  /\ UNCHANGED storeVars
  /\ UNCHANGED renderVars
  /\ UNCHANGED asmVars

(* ConsistencyManager.get_prompt_block                                     *)
GetPromptBlockWith(level) ==
  IF RenderRaises(mState, level)
  THEN ReadStep("get_prompt_block", TRUE, "AttributeError", "")
  ELSE ReadStep("get_prompt_block", FALSE, "str", StateBlock(mState, level))

GetPromptBlock == \E level \in DetailLevels : GetPromptBlockWith(level)

(* generate_reference of the application: the answer of the endpoint for   *)
(* the subject, after the provider answered with the status and the url    *)
GenerateReferenceWith(subject_id, status, url) ==
  LET i == SubjectIndex(mState, subject_id)
  IN  IF i = 0
      THEN ReadStep("generate_reference", FALSE, "404", "")
      ELSE IF \/ mState.style # None /\ IsAttribute(mState.style.camera)
              \/ SubjectRenderRaises(mState.subjects[i], "full")
           THEN ReadStep("generate_reference", FALSE, "500", "")
           ELSE IF status = "completed"
                THEN IF "set_reference_url" \in ManagerMethods
                     THEN ReadStep("generate_reference", FALSE, "200", url)
                     ELSE ReadStep("generate_reference", FALSE, "500", "")
                ELSE IF status = "processing"
                     THEN ReadStep("generate_reference", FALSE, "200", "")
                     ELSE ReadStep("generate_reference", FALSE, "500", "")

GenerateReference ==
  \E subject_id \in MgrSubjectIds(mState), status \in TaskStatuses, url \in ReferenceUrls :
    GenerateReferenceWith(subject_id, status, url)

NextEdit ==
  \/ EditSubject
  \/ EditEnvironment
  \/ EditStyle
  \/ GetPromptBlock
  \/ GenerateReference

SpecEdit == InitEdit /\ [][NextEdit]_vars

(***************************************************************************)
(* C22: the reference image URL of a subject.                              *)
(***************************************************************************)
(* the sheet carries the URL as its reference image                        *)
CarriesReferenceUrl(sheet, url) ==
  /\ "reference_image_url" \in DOMAIN sheet
  /\ sheet.reference_image_url = url

(* generate_reference for the subject, the render completed with the url   *)
ReferenceStoredFor(subject_id, url) ==
  LET i == SubjectIndex(mState, subject_id)
  IN  ( /\ i # 0
        /\ ~SubjectRenderRaises(mState.subjects[i], "full")
        /\ ~IsAttribute(mState.style.camera)
        /\ GenerateReferenceWith(subject_id, "completed", url) )
      => /\ mCall'.ret = "200"
         /\ SubjectIndex(mState', subject_id) = i
         /\ CarriesReferenceUrl(mState'.subjects[i], url)
         /\ \A f \in DOMAIN mState.subjects[i] : mState'.subjects[i][f] = mState.subjects[i][f]

ReferenceUrlStep ==
  mCall'.op = "generate_reference"
  => \A subject_id \in SubjectIds(mState), url \in ReferenceUrls :
       ReferenceStoredFor(subject_id, url)

(* C22: after a reference render completed for a subject, the sheet        *)
(* get_subject returns for it carries the URL of the render, and its id    *)
(* and details are what they were                                          *)
ReferenceUrlKept == [][ReferenceUrlStep]_vars

(***************************************************************************)
(* C23: an unknown value is an absent Attribute.                           *)
(***************************************************************************)
(* the Attributes a bundle of Attribute fields holds (the bundle itself if *)
(* an Attribute stands in its place)                                       *)
BundleAttributes(b) ==
  IF b = None THEN {}
  ELSE IF IsAttribute(b) THEN {b}
       ELSE {b[f] : f \in DOMAIN b} \ {None}

(* the Attributes the sheets of a State hold                               *)
HeldAttributes(st) ==
  LET OfHuman(h) ==
        IF h = None THEN {}
        ELSE ({h.gender, h.expression, h.pose} \ {None})
             \cup BundleAttributes(h.hair) \cup BundleAttributes(h.face)
             \cup BundleAttributes(h.body) \cup BundleAttributes(h.clothing)
      OfSubject(s) ==
        ({s.description} \ {None}) \cup OfHuman(s.human_details)
        \cup BundleAttributes(s.animal_details) \cup BundleAttributes(s.object_details)
      OfEnvironment(e) ==
        IF e = None THEN {}
        ELSE ({e[f] : f \in DOMAIN e \ {"id", "name", "lighting"}} \ {None})
             \cup BundleAttributes(e.lighting)
      OfStyle(v) ==
        IF v = None THEN {}
        ELSE ({v[f] : f \in DOMAIN v \ {"id", "name", "camera"}} \ {None})
             \cup BundleAttributes(v.camera)
  IN  UNION {OfSubject(st.subjects[i]) : i \in 1..Len(st.subjects)}
      \cup OfEnvironment(st.environment) \cup OfStyle(st.style)

(* the empty string and what str() makes of a missing value                *)
MissingValues == {"", "None"}

(* sub occurs in s                                                         *)
Occurs(sub, s) ==
  \E i \in 1..(Len(s) - Len(sub) + 1) : SubSeq(s, i, i + Len(sub) - 1) = sub

(* the block has a fragment that is empty or stands for a missing value    *)
HasEmptyFragment(block) ==
  \/ Occurs("None", block)
  \/ Occurs(", ,", block)
  \/ Occurs(", .", block)
  \/ Len(block) >= 2 /\ SubSeq(block, Len(block) - 1, Len(block)) = ", "
  \/ Len(block) >= 2 /\ SubSeq(block, 1, 2) \in {", ", ". "}

(* C23: no sheet of the State holds an Attribute whose value is the empty  *)
(* string or a placeholder of a missing value, and no block that           *)
(* get_prompt_block returns has an empty fragment                          *)
UnknownIsAbsent ==
  /\ mState # None => \A a \in HeldAttributes(mState) : a.value \notin MissingValues
  /\ (mCall.op = "get_prompt_block" /\ ~mCall.raised) => ~HasEmptyFragment(mCall.out)

(* the blocks alone: also violated, by the block read after an update      *)
(* that gave an empty value                                                *)
NoEmptyFragmentRead ==
  (mCall.op = "get_prompt_block" /\ ~mCall.raised) => ~HasEmptyFragment(mCall.out)

(***************************************************************************)
(* C24: the subject of a video segment prompt.                             *)
(***************************************************************************)
(* the two lists of subject ids differ at most after their first element   *)
SameFirst(ids, other) ==
  \/ ids = <<>> /\ other = <<>>
  \/ ids # <<>> /\ other # <<>> /\ ids[1] = other[1]

(* C24: a video segment prompt has the block of subject_ids[0] at medium   *)
(* detail as its only subject fragment (none if that subject is not in the *)
(* State), and the call returns the same string for every list of subject  *)
(* ids with the same first element                                         *)
VideoRendersFirstSubjectOnly ==
  (aPc = "done" /\ aCall.op = "video" /\ ~aRaised)
  => LET ids == aCall.subject_ids
         first == IF ids = <<>> THEN None ELSE GetSubject(asmState, ids[1])
         shown == SelectSeq(aParts, LAMBDA p : p.sec = "subject")
     IN  /\ Texts(shown) = IF first # None /\ SubjectBlock(first, "medium") # ""
                           THEN <<SubjectBlock(first, "medium")>>
                           ELSE <<>>
         /\ \A other \in AsmSubjectIds :
              SameFirst(ids, other)
              => AssembleVideoSegmentPrompt(asmState, other, aCall.environment_id,
                                            aCall.action, aCall.camera,
                                            aCall.motion_hint).out = aOut

(* a video segment prompt was made for two subjects of the State, both     *)
(* with details, and has the first one only                                *)
SecondSubjectDropped ==
  /\ aPc = "done"
  /\ aCall.op = "video"
  /\ aCall.subject_ids = <<1, 2>>
  /\ ~aRaised
  /\ Len(asmState.subjects) >= 2
  /\ SubjectBlock(asmState.subjects[2], "medium") # ""
  /\ SubjectBlock(asmState.subjects[1], "medium") # SubjectBlock(asmState.subjects[1], "full")
  /\ Len(SelectSeq(aParts, LAMBDA p : p.sec = "subject")) = 1

(***************************************************************************)
(* Strategy 4 seen from the caller: the text that reaches the truncation   *)
(* (stages 1-3 left it longer than the target), and the positions the      *)
(* truncation looks at.                                                    *)
(***************************************************************************)
BeforeTruncation(prompt, T) == Stage3(Stage2(Stage1(prompt), T), T)

Truncates(prompt, T) ==
  /\ Len(prompt) > T
  /\ Len(Stage1(prompt)) > T
  /\ Len(Stage2(Stage1(prompt), T)) > T
  /\ Len(BeforeTruncation(prompt, T)) > T

CutPoint(s, T) ==
  LET last_comma == RFind(Prefix(s, T), ",")
      last_period == RFind(Prefix(s, T), ".")
  IN  IF last_comma > last_period THEN last_comma ELSE last_period

LastSpace(s, T) == RFind(Prefix(s, T), " ")

Tidy(s) == Strip(RStripComma(Strip(s)))

(* C25: the truncation thresholds are inclusive: when the last comma or    *)
(* period of the first T characters sits at exactly 70% of T the result is *)
(* the text before it, and when no comma or period sits that far but the   *)
(* last space sits at exactly 80% of T the result is the text before that  *)
(* space.                                                                  *)
InclusiveThresholds ==
  (cPc = "done" /\ Truncates(cIn, cT)) =>
    LET s == BeforeTruncation(cIn, cT)
    IN  /\ 10 * CutPoint(s, cT) = 7 * cT
           => cOut = Tidy(Prefix(s, CutPoint(s, cT)))
        /\ (10 * CutPoint(s, cT) < 7 * cT /\ 10 * LastSpace(s, cT) = 8 * cT)
           => cOut = Tidy(Prefix(s, LastSpace(s, cT)))

(* The same statement with the thresholds the code compares against: a cut *)
(* point strictly beyond 70% (80% for a space) is used.                    *)
ExclusiveThresholds ==
  (cPc = "done" /\ Truncates(cIn, cT)) =>
    LET s == BeforeTruncation(cIn, cT)
    IN  /\ 10 * CutPoint(s, cT) > 7 * cT
           => cOut = Tidy(Prefix(s, CutPoint(s, cT)))
        /\ (10 * CutPoint(s, cT) <= 7 * cT /\ 10 * LastSpace(s, cT) > 8 * cT)
           => cOut = Tidy(Prefix(s, LastSpace(s, cT)))
        /\ (10 * CutPoint(s, cT) <= 7 * cT /\ 10 * LastSpace(s, cT) <= 8 * cT)
           => cOut = Tidy(Prefix(s, cT))

(***************************************************************************)
(* The fragments an assembly method joins for the arguments of an estimate *)
(* (default foreground, no motion hint), and their lengths per section.    *)
(***************************************************************************)
AssemblyParts(st, call) ==
  IF call.prompt_type = "keyframe"
  THEN KeyframeParts(st, call.subject_ids, call.environment_id, call.action, call.camera,
                     NoList)
  ELSE VideoSegmentParts(st, call.subject_ids, call.environment_id, call.action,
                         call.camera, NoStr)

RECURSIVE SectionLength(_, _)
SectionLength(parts, sec) ==
  IF parts = <<>> THEN 0
  ELSE (IF Head(parts).sec = sec THEN Len(Head(parts).text) ELSE 0)
       + SectionLength(Tail(parts), sec)

JoinPoints(parts) ==
  IF Len(FilterNone(Texts(parts))) > 1 THEN Len(FilterNone(Texts(parts))) - 1 ELSE 0

(* C26: estimate_prompt_length leaves the State alone, its style, subjects *)
(* and environment counts are the lengths of the fragments the assembly    *)
(* method of that prompt type renders (video: style minimal, first subject *)
(* at medium, environment minimal), and its total is the sum of the five   *)
(* counts plus 2 for every join point between the assembly's fragments.    *)
EstimateMatchesAssemblyStep ==
  (aPc = "ready" /\ aCall'.op = "estimate" /\ asmState # None) =>
    LET parts == AssemblyParts(asmState, aCall')
        e == aEst'
    IN  /\ asmState' = asmState
        /\ e.style = SectionLength(parts, "style")
        /\ e.subjects = SectionLength(parts, "subject")
        /\ e.environment = SectionLength(parts, "environment")
        /\ e.total = e.style + e.subjects + e.action + e.environment + e.camera
                       + 2 * JoinPoints(parts)

EstimateMatchesAssembly == [][EstimateMatchesAssemblyStep]_vars

(* The keyframe half of the same statement for at most one subject: there  *)
(* the estimate and the assembly agree.                                    *)
KeyframeEstimateMatchesStep ==
  (/\ aPc = "ready" /\ aCall'.op = "estimate" /\ asmState # None
   /\ aCall'.prompt_type = "keyframe" /\ Len(aCall'.subject_ids) <= 1) =>
    LET parts == AssemblyParts(asmState, aCall')
        e == aEst'
    IN  /\ asmState' = asmState
        /\ e.style = SectionLength(parts, "style")
        /\ e.subjects = SectionLength(parts, "subject")
        /\ e.environment = SectionLength(parts, "environment")
        /\ e.total = e.style + e.subjects + e.action + e.environment + e.camera
                       + 2 * JoinPoints(parts)

KeyframeEstimateMatches == [][KeyframeEstimateMatchesStep]_vars

(***************************************************************************)
(* The getters of the State that answer with a subject (schemas.py).       *)
(***************************************************************************)
(* VideoConsistencyState.get_subject_by_role                               *)
StateGetSubjectByRole(st, role) ==
  IF RoleIndex(st, role) = 0 THEN None ELSE st.subjects[RoleIndex(st, role)]

(* VideoConsistencyState.get_primary_subject                               *)
GetPrimarySubject(st) ==
  IF StateGetSubjectByRole(st, "protagonist") # None
  THEN StateGetSubjectByRole(st, "protagonist")
  ELSE IF st.subjects # <<>> THEN st.subjects[1] ELSE None

(* the methods that create a subject                                       *)
CreatingOps == {"add_subject", "create_human_subject", "create_product_subject"}

(* list is the list before with its element i taken out and every other    *)
(* element in its place                                                    *)
TakenOut(before, i, list) ==
  /\ Len(list) = Len(before) - 1
  /\ \A j \in 1..Len(list) : list[j] = before[IF j < i THEN j ELSE j + 1]

(* the positions of the subjects of a role                                 *)
WithRole(st, role) == {i \in 1..Len(st.subjects) : st.subjects[i].role = role}

(* the roles subjects are asked for                                        *)
AskedRoles == MgrRoles \cup {"product"}

(* C27: the subjects stay in creation order.  A creating call leaves the   *)
(* list it found with the new subject at the end; remove_subject with a    *)
(* known id returns true and takes out exactly one subject, the first with *)
(* that id, all others keeping their places relative to each other (with   *)
(* an unknown id it returns false and the list stays); get_subject_by_role *)
(* answers with the first subject of the list that has the role, none if   *)
(* no subject has it, and get_primary_subject with the first protagonist,  *)
(* else the first subject, else none.                                      *)
CreationOrderStep ==
  /\ (mCall'.op \in CreatingOps /\ ~mCall'.raised) =>
       LET found == StateProperty(mState, MgrSession, mDb, dbRows, mFresh, FALSE).state
       IN  /\ Len(mState'.subjects) = Len(found.subjects) + 1
           /\ SubSeq(mState'.subjects, 1, Len(found.subjects)) = found.subjects
           /\ mState'.subjects[Len(mState'.subjects)].id \notin SubjectIds(found)
  /\ (mCall'.op = "remove_subject" /\ mState # None) =>
       \A subject_id \in MgrSubjectIds(mState) :
         RemoveSubjectWith(subject_id, FALSE) =>
           IF subject_id \in SubjectIds(mState)
           THEN /\ mCall'.ret = "True"
                /\ TakenOut(mState.subjects, SubjectIndex(mState, subject_id),
                            mState'.subjects)
                /\ mState.subjects[SubjectIndex(mState, subject_id)].id = subject_id
                /\ \A j \in 1..(SubjectIndex(mState, subject_id) - 1) :
                     mState.subjects[j].id # subject_id
           ELSE /\ mCall'.ret = "False"
                /\ mState'.subjects = mState.subjects
  /\ mState' # None =>
       /\ \A role \in AskedRoles :
            IF WithRole(mState', role) = {}
            THEN StateGetSubjectByRole(mState', role) = None
            ELSE StateGetSubjectByRole(mState', role)
                   = mState'.subjects[MinOf(WithRole(mState', role))]
       /\ GetPrimarySubject(mState') =
            IF WithRole(mState', "protagonist") # {}
            THEN mState'.subjects[MinOf(WithRole(mState', "protagonist"))]
            ELSE IF Len(mState'.subjects) > 0 THEN mState'.subjects[1] ELSE None

CreationOrder == [][CreationOrderStep]_vars

(* remove_subject took the first of several subjects out and the others    *)
(* are still there, a protagonist among them                               *)
RemovedFromTheFront ==
  /\ mCall.op = "remove_subject"
  /\ mCall.ret = "True"
  /\ mCall.state0 # None
  /\ Len(mCall.state0.subjects) >= 2
  /\ mState.subjects = Tail(mCall.state0.subjects)
  /\ mCall.state0.subjects[1].id \notin SubjectIds(mState)
  /\ GetPrimarySubject(mState) # None

(***************************************************************************)
(* C28: what the update methods leave alone.                               *)
(***************************************************************************)
(* the nested detail bundles of the State                                  *)
NestedBundles(st) ==
  {st.environment.lighting, st.style.camera}
    \cup UNION {{st.subjects[i].human_details[f] : f \in {"hair", "face", "body", "clothing"}}
                 : i \in {j \in 1..Len(st.subjects) : st.subjects[j].human_details # None}}

(* C28: whatever keywords update_subject, update_environment and           *)
(* update_style are called with, the ids and names of the sheets stay as   *)
(* they were (the environment and style ids are the join keys), no nested  *)
(* bundle (hair, face, body, clothing, lighting, camera) is replaced by a  *)
(* bare Attribute, and the State stays renderable at every detail level.   *)
UpdatesKeepStructure ==
  /\ mState.environment.id = EditState.environment.id
  /\ mState.environment.name = EditState.environment.name
  /\ mState.style.id = EditState.style.id
  /\ mState.style.name = EditState.style.name
  /\ \A i \in 1..Len(mState.subjects) :
       /\ mState.subjects[i].id = EditState.subjects[i].id
       /\ mState.subjects[i].name = EditState.subjects[i].name
  /\ \A b \in NestedBundles(mState) : ~IsAttribute(b)
  /\ \A level \in DetailLevels : ~RenderRaises(mState, level)

(* The part of the statement that holds: the subjects keep their ids and   *)
(* names, which update_subject looks for on the details bundle only.       *)
SubjectIdentityKept ==
  \A i \in 1..Len(mState.subjects) :
    /\ mState.subjects[i].id = EditState.subjects[i].id
    /\ mState.subjects[i].name = EditState.subjects[i].name

(***************************************************************************)
(* C29: what save() answers when the collaborator does not raise.          *)
(***************************************************************************)
(* the row of the session holds the State as the Manager holds it now      *)
Persisted(rows, st) ==
  /\ rows[st.session_id] # None
  /\ rows[st.session_id].state_data = ModelDump(st)
  /\ rows[st.session_id].version = st.version

(* C29: with a collaborator configured whose write does not raise, save()  *)
(* returns true and persists the Manager's State in every Manager state,   *)
(* the state of a new Manager that was never accessed included.            *)
SaveAlwaysPersistsStep ==
  (mCall'.op = "save" /\ mDb /\ ~mCall'.dbRaised) =>
    /\ mCall'.ret = "True"
    /\ mState' # None
    /\ Persisted(dbRows', mState')

SaveAlwaysPersists == [][SaveAlwaysPersistsStep]_vars

(* C29 as the code has it: with a collaborator configured whose write does *)
(* not raise, save() on a Manager that holds a State returns true, counts  *)
(* the version up, persists the State and clears the dirty flag; on a      *)
(* Manager whose State was never accessed it returns false, writes nothing *)
(* and leaves the Manager without a State.                                 *)
SavePersistsHeldStateStep ==
  (mCall'.op = "save" /\ mDb /\ ~mCall'.dbRaised) =>
    IF mState # None
    THEN /\ mCall'.ret = "True"
         /\ mState' = [mState EXCEPT !.version = @ + 1]
         /\ Persisted(dbRows', mState')
         /\ ~mDirty'
    ELSE /\ mCall'.ret = "False"
         /\ mState' = None
         /\ dbRows' = dbRows
         /\ mDirty' = mDirty

SavePersistsHeldState == [][SavePersistsHeldStateStep]_vars

(* a save that overwrote the row of the session with the State held        *)
SavedOverStoredRow ==
  /\ mCall.op = "save"
  /\ mCall.ret = "True"
  /\ mDb
  /\ mCall.state0 # None
  /\ mState # None
  /\ Persisted(dbRows, mState)
  /\ mState.version > 2

(***************************************************************************)
(* C30: the collaborator raising during the lazy first access.             *)
(***************************************************************************)
(* the methods that reach the collaborator through the state property      *)
LazyOps ==
  {"state", "add_subject", "create_human_subject", "create_product_subject",
   "update_subject", "remove_subject", "get_subject", "get_subject_by_role",
   "set_environment", "update_environment", "set_style", "update_style",
   "set_consistent_elements", "set_visual_motif"}

(* C30: no Manager operation propagates an exception of the collaborator:  *)
(* when the collaborator raises during the lazy first access to the State, *)
(* the call completes normally and the Manager holds a new State of its    *)
(* session from then on (empty but for what the call itself added).        *)
LazyLoadFailureStep ==
  (mCall'.op \in LazyOps /\ mCall'.dbRaised) =>
    /\ ~mCall'.raised
    /\ mCall'.ret # "raised"
    /\ mState' # None
    /\ mState'.session_id = MgrSession
    /\ Len(mState'.subjects) <= 1
    /\ mState'.version = 1

LazyLoadFailureContained == [][LazyLoadFailureStep]_vars

(* What the code does instead: the exception leaves the call and the       *)
(* Manager stays without a State, as clean or dirty as it was.             *)
LazyLoadFailurePropagatesStep ==
  (mCall'.op \in LazyOps /\ mCall'.dbRaised) =>
    /\ mCall'.raised
    /\ mState = None
    /\ mState' = None
    /\ mDirty' = mDirty
    /\ dbRows' = dbRows

LazyLoadFailurePropagates == [][LazyLoadFailurePropagatesStep]_vars

====
